---- MODULE Spec2Model ----
(***************************************************************************)
(* Whiteboard Photo Booth: the canvas text fitter getAdjustedFontAndLines  *)
(* and the grid compositor drawWhiteboard.                                 *)
(*                                                                         *)
(* Representation.                                                         *)
(*  - A string is a sequence of characters; a character is a one-element   *)
(*    token.  Characters outside ASCII are named by their code point       *)
(*    ("U+2026" is the ellipsis).  The JavaScript value undefined (a       *)
(*    missing text) is the distinguished value Undefined.                  *)
(*  - Heights (maxHeight, lineHeight) are counted in fifths of a pixel, so *)
(*    that fontSize * 1.4 is the integer 7 * fontSize.  For heights that   *)
(*    are multiples of 0.2px the comparisons of the source, evaluated in   *)
(*    IEEE doubles, agree with the integer comparisons used here.          *)
(*  - Widths (maxWidth, measureText(..).width) are counted in advance      *)
(*    units.  ctx.measureText is the canvas primitive: it is modelled as   *)
(*    fontSize times the sum of the characters' advances, the advances     *)
(*    being given by the context (ctx.adv).                                *)
(***************************************************************************)
EXTENDS Integers, Sequences, FiniteSets, TLC

\* ------------------------------------------------------------------ bounds
MaxLen == 3        \* longest text handed to the fitter
MaxW   == 8        \* largest maxWidth, in advance units
MaxH   == 28       \* largest maxHeight, in fifths of a pixel

\* --------------------------------------------------------------- characters
Ellipsis == "U+2026"
Undefined == <<"undefined">>
Chars == {"a", "W", " "}

RECURSIVE SeqsUpTo(_, _)
SeqsUpTo(S, n) ==
    IF n = 0 THEN {<<>>}
    ELSE LET shorter == SeqsUpTo(S, n - 1)
         IN  shorter \cup {Append(s, c) : s \in {t \in shorter : Len(t) = n - 1}, c \in S}

Texts == SeqsUpTo(Chars, MaxLen) \cup {Undefined}
Widths == -1 .. MaxW
Heights == -1 .. MaxH

\* The two measuring contexts: a fixed advance per character (the stub of the
\* specification's truncation test) and a proportional font.
FixedWidthCtx == [adv |-> [c \in Chars \cup {Ellipsis} |-> 2]]
ProportionalCtx ==
    [adv |-> [c \in Chars \cup {Ellipsis} |->
                 IF c \in {"W", Ellipsis} THEN 2 ELSE 1]]
Contexts == {FixedWidthCtx, ProportionalCtx}

\* The fitter: one cell, its context, text and box, and the result of the call.
VARIABLES ctx, text, maxWidth, maxHeight, fit, prev
\* The compositor: which variant of drawWhiteboard runs, its arguments, the
\* geometry it computes and the texts it draws; whiteboardTexts is the array
\* the caller passed, as the call leaves it.
VARIABLES variant, boardWidth, boardHeight, texts, layout, textsToDraw,
          whiteboardTexts

\* The drawing surface: the operations issued to it since it was created or
\* reset (ops); and, of the call before the last one, the operations and the
\* geometry (prevOps, prevLayout), how the last call relates to it (drawKind:
\* "first", "again", "edit", "resize", "double") and the cell an edit changed.
VARIABLES ops, prevOps, prevLayout, drawKind, edited

\* The App: its React state (imageSrc, isTimerEnabled, countdown, isCapturing,
\* whiteboardScale, whiteboardPosition), the video element (its frame size
\* and whether it has a frame), the numbers of the last capturePhoto that
\* composed a photo (capture), and the last invocation of the preview render
\* or of capturePhoto with the imageSrc it ran under (invoked).
VARIABLES imageSrc, isTimerEnabled, countdown, isCapturing, whiteboardScale,
          whiteboardPosition, video, capture, invoked

\* The legacy WhiteboardGridInput: the saved list of a field (React state),
\* what localStorage holds for it, the last alert, and of the last import
\* the list held before it and the text of the file.
VARIABLES savedOptions, stored, alerted, imported

\* getSavedOptions: what localStorage holds under the key (item: Null or a
\* text) and the last call (returned: what the key held before it, the
\* default it was given and its outcome).
VARIABLES item, returned

\* The current WhiteboardGridInput (part_001): the lists of the mock server
\* in localStorage (serverStorage), the queue of offline actions in
\* localStorage (offlineQueue), the React state (options: the saved options
\* of each field; isOnline, isLoading, isSyncing, modal, notification), the
\* asynchronous work in flight (sync: syncOfflineChanges; load:
\* fetchInitialData; reading: a FileReader with the closure of its onload;
\* request: a call of the api by a handler; timers: the timers of the api in
\* the order they fire), and a record of what happened
\* (audit: the queued actions replayed and those removed unreplayed, the last
\* completed sync and the last completed import).
VARIABLES serverStorage, offlineQueue, options, isOnline, isLoading, isSyncing,
          modal, notification, sync, load, reading, request, timers, audit

fitVars == <<ctx, text, maxWidth, maxHeight, fit, prev>>
boardVars == <<variant, boardWidth, boardHeight, texts, layout, textsToDraw,
               whiteboardTexts>>
drawVars == <<ops, prevOps, prevLayout, drawKind, edited>>
appVars == <<imageSrc, isTimerEnabled, countdown, isCapturing, whiteboardScale,
             whiteboardPosition, video, capture, invoked>>
listVars == <<savedOptions, stored, alerted, imported>>
storeVars == <<item, returned>>
\* the variables of the parts that follow the saved lists
\* The service worker: which of the two workers runs (worker), the cache
\* CACHE_NAME (cache), the cache.put calls not yet completed (pending) and the
\* last fetch event with what the listener did for it (fetched).
VARIABLES worker, cache, pending, fetched

workerVars == <<worker, cache, pending, fetched>>

\* The self-timer of the two Apps, with the state of the App in imageSrc,
\* isTimerEnabled, countdown and isCapturing: which App runs (app), the
\* timers of the countdown effect that are pending (timeouts), the id of the
\* timer the effect set last (timerRef), the number of timers set since the
\* capture button was pressed (nextTimer), the values the countdown has taken
\* since then (taken), the number of times the capture routine was invoked
\* since then (captures), the number of times the effect ran again for a
\* changed capture routine (restarts), and whether the countdown was
\* cancelled (cancelled).
VARIABLES app, timeouts, timerRef, nextTimer, taken, captures, restarts, cancelled

clockVars == <<app, timeouts, timerRef, nextTimer, taken, captures, restarts, cancelled>>
gridVars == <<serverStorage, offlineQueue, options, isOnline, isLoading, isSyncing,
              modal, notification, sync, load, reading, request, timers, audit>>
restVars == <<storeVars, gridVars, workerVars, clockVars>>
vars == <<fitVars, boardVars, drawVars, appVars, listVars, restVars>>

\* ------------------------------------------------------------ text measure
RECURSIVE SumAdv(_, _)
SumAdv(c, s) == IF s = <<>> THEN 0 ELSE c.adv[Head(s)] + SumAdv(c, Tail(s))

\* ctx.measureText(s).width with ctx.font set to fontSize px
measureText(c, fontSize, s) == fontSize * SumAdv(c, s)

\* text.trim() === ''
IsBlank(s) == \A i \in 1 .. Len(s) : s[i] = " "

\* !text
Falsy(s) == s = Undefined \/ s = <<>>

minFontSize == 1
LineHeightOf(fontSize) == fontSize * 7          \* fontSize * 1.4, in fifths
Floor(h) == h \div 5                            \* Math.floor of a height
Max(a, b) == IF a >= b THEN a ELSE b

\* Mutant of WrapFrom: the character that overflows the line is dropped
\* instead of starting the next line (currentLine = '' for currentLine = char).
RECURSIVE WrapFromDropChar(_, _, _, _, _, _, _)
WrapFromDropChar(c, fontSize, s, i, lines, currentLine, mw) ==
    IF i > Len(s) THEN Append(lines, currentLine)
    ELSE LET char == s[i]
             testLine == Append(currentLine, char)
         IN  IF measureText(c, fontSize, testLine) > mw /\ Len(currentLine) > 0
             THEN WrapFromDropChar(c, fontSize, s, i + 1, Append(lines, currentLine), <<>>, mw)
             ELSE WrapFromDropChar(c, fontSize, s, i + 1, lines, testLine, mw)

\* The character loop of lines 118-130 (and 146-158): greedy wrap.
RECURSIVE WrapFrom(_, _, _, _, _, _, _)
WrapFrom(c, fontSize, s, i, lines, currentLine, mw) ==
    IF i > Len(s) THEN Append(lines, currentLine)
    ELSE LET char == s[i]
             testLine == Append(currentLine, char)
         IN  IF measureText(c, fontSize, testLine) > mw /\ Len(currentLine) > 0
             THEN WrapFrom(c, fontSize, s, i + 1, Append(lines, currentLine), <<char>>, mw)
             ELSE WrapFrom(c, fontSize, s, i + 1, lines, testLine, mw)

WrapLines(c, fontSize, s, mw) == WrapFrom(c, fontSize, s, 1, <<>>, <<>>, mw)

\* The while loop of lines 166-168.
RECURSIVE TrimForEllipsis(_, _, _, _)
TrimForEllipsis(c, fontSize, truncatedLastLine, mw) ==
    IF measureText(c, fontSize, Append(truncatedLastLine, Ellipsis)) > mw
       /\ Len(truncatedLastLine) > 0
    THEN TrimForEllipsis(c, fontSize,
                         SubSeq(truncatedLastLine, 1, Len(truncatedLastLine) - 1), mw)
    ELSE truncatedLastLine

\* The truncation of lines 160-172 at a given fallback font size.
TruncatedFit(c, s, mw, mh, fallbackFontSize) ==
    LET fallbackLineHeight == LineHeightOf(fallbackFontSize)
        lines == WrapLines(c, fallbackFontSize, s, mw)
        maxLines == Max(1, mh \div fallbackLineHeight)
        truncatedLines == SubSeq(lines, 1, IF Len(lines) < maxLines
                                           THEN Len(lines) ELSE maxLines)
        n == Len(truncatedLines)
    IN  IF Len(lines) > maxLines /\ n > 0
        THEN [lines |-> [truncatedLines EXCEPT ![n] =
                           Append(TrimForEllipsis(c, fallbackFontSize,
                                                  truncatedLines[n], mw),
                                  Ellipsis)],
              lineHeight |-> fallbackLineHeight, path |-> "truncated"]
        ELSE [lines |-> truncatedLines,
              lineHeight |-> fallbackLineHeight, path |-> "fallback"]

\* Mutant of FallbackFit: the test of line 142 is missing (as in the older
\* variant of the function), so a box lower than one line still gets text.
FallbackFitNoHeightCheck(c, s, mw, mh) == TruncatedFit(c, s, mw, mh, minFontSize)

\* Mutant of FallbackFit: the fallback uses another minimum than the search
\* loop (the two variants of the function disagree on it).
FallbackFitOtherMinimum(c, s, mw, mh) ==
    IF LineHeightOf(minFontSize + 1) > mh
    THEN [lines |-> <<>>, lineHeight |-> 0, path |-> "nofit"]
    ELSE TruncatedFit(c, s, mw, mh, minFontSize + 1)

\* Lines 137-172: the fallback at the minimum font size.
FallbackFit(c, s, mw, mh) ==
    LET fallbackFontSize == minFontSize
        fallbackLineHeight == LineHeightOf(fallbackFontSize)
    IN  IF fallbackLineHeight > mh
        THEN [lines |-> <<>>, lineHeight |-> 0, path |-> "nofit"]
        ELSE TruncatedFit(c, s, mw, mh, fallbackFontSize)

\* Mutant of SearchFrom: the accepted height forgets the leading, it compares
\* lines.length * fontSize with maxHeight.
RECURSIVE SearchFromNoLeading(_, _, _, _, _)
SearchFromNoLeading(c, s, mw, mh, fontSize) ==
    IF fontSize < minFontSize THEN FallbackFit(c, s, mw, mh)
    ELSE LET lineHeight == LineHeightOf(fontSize)
         IN  IF lineHeight > mh
             THEN SearchFromNoLeading(c, s, mw, mh, fontSize - 1)
             ELSE LET lines == WrapLines(c, fontSize, s, mw)
                  IN  IF Len(lines) * fontSize * 5 <= mh
                      THEN [lines |-> lines, lineHeight |-> lineHeight, path |-> "loop"]
                      ELSE SearchFromNoLeading(c, s, mw, mh, fontSize - 1)

\* Lines 110-135: the search from the largest font size downwards.
RECURSIVE SearchFrom(_, _, _, _, _)
SearchFrom(c, s, mw, mh, fontSize) ==
    IF fontSize < minFontSize THEN FallbackFit(c, s, mw, mh)
    ELSE LET lineHeight == LineHeightOf(fontSize)
         IN  IF lineHeight > mh
             THEN SearchFrom(c, s, mw, mh, fontSize - 1)
             ELSE LET lines == WrapLines(c, fontSize, s, mw)
                  IN  IF Len(lines) * lineHeight <= mh
                      THEN [lines |-> lines, lineHeight |-> lineHeight, path |-> "loop"]
                      ELSE SearchFrom(c, s, mw, mh, fontSize - 1)

\* Mutant of getAdjustedFontAndLines: the search starts one size below the
\* largest size whose line height fits.
getAdjustedFontAndLinesStartLow(c, s, mw, mh) ==
    IF Falsy(s) \/ IsBlank(s) \/ mw <= 0 \/ mh <= 0
    THEN [lines |-> <<>>, lineHeight |-> 0, path |-> "guard"]
    ELSE SearchFrom(c, s, mw, mh, (mh \div 7) - 1)

\* Mutant of getAdjustedFontAndLines: the guard tests the text only (as in
\* the older variant of the function), not the box.
getAdjustedFontAndLinesTextGuard(c, s, mw, mh) ==
    IF Falsy(s) \/ IsBlank(s)
    THEN [lines |-> <<>>, lineHeight |-> 0, path |-> "guard"]
    ELSE SearchFrom(c, s, mw, mh, Floor(mh))

\* The field path records which return statement produced the result:
\* "guard" (line 104), "loop" (133), "nofit" (143), "truncated" or
\* "fallback" (172).
getAdjustedFontAndLines(c, s, mw, mh) ==
    IF Falsy(s) \/ IsBlank(s) \/ mw <= 0 \/ mh <= 0
    THEN [lines |-> <<>>, lineHeight |-> 0, path |-> "guard"]
    ELSE SearchFrom(c, s, mw, mh, Floor(mh))

\* ------------------------------------------------------------- the fitter
\* The font size a result was set in: lineHeight / 1.4 (0 for the empty result).
FontSizeOf(r) == r.lineHeight \div 7

\* No board is drawn while a single cell is studied.
BoardIdle ==
    /\ variant = "none"
    /\ boardWidth = 0
    /\ boardHeight = 0
    /\ texts = <<>>
    /\ layout = <<>>
    /\ textsToDraw = <<>>
    /\ whiteboardTexts = <<>>

\* The operations on the surface are not observed.
DrawIdle ==
    /\ ops = <<>>
    /\ prevOps = <<>>
    /\ prevLayout = <<>>
    /\ drawKind = "none"
    /\ edited = -1

\* The App is not mounted.
AppIdle ==
    /\ imageSrc = "null"
    /\ isTimerEnabled = FALSE
    /\ countdown = -1
    /\ isCapturing = FALSE
    /\ whiteboardScale = 0
    /\ whiteboardPosition = <<>>
    /\ video = <<>>
    /\ capture = <<>>
    /\ invoked = <<>>

\* The list component is not mounted.
ListIdle ==
    /\ savedOptions = <<>>
    /\ stored = <<>>
    /\ alerted = "none"
    /\ imported = <<>>

\* localStorage.getItem(key) === null
Null == <<"null">>

\* getSavedOptions is not called.
StoreIdle ==
    /\ item = Null
    /\ returned = <<>>

\* The current WhiteboardGridInput is not mounted.
GridIdle ==
    /\ serverStorage = <<>>
    /\ offlineQueue = <<>>
    /\ options = <<>>
    /\ isOnline = FALSE
    /\ isLoading = FALSE
    /\ isSyncing = FALSE
    /\ modal = "none"
    /\ notification = ""
    /\ sync = <<>>
    /\ load = <<>>
    /\ reading = <<>>
    /\ request = <<>>
    /\ timers = <<>>
    /\ audit = <<>>

\* No service worker is registered.
WorkerIdle ==
    /\ worker = ""
    /\ cache = <<>>
    /\ pending = {}
    /\ fetched = <<>>

\* The self-timer is not followed.
ClockIdle ==
    /\ app = ""
    /\ timeouts = {}
    /\ timerRef = 0
    /\ nextTimer = 0
    /\ taken = <<>>
    /\ captures = 0
    /\ restarts = 0
    /\ cancelled = FALSE

RestIdle ==
    /\ StoreIdle
    /\ GridIdle
    /\ WorkerIdle
    /\ ClockIdle

\* prev is the font size chosen by the preceding call when that call had the
\* same text and a box no larger than the present one (NoPrev otherwise).
NoPrev == -1

InitFit ==
    /\ ctx \in Contexts
    /\ text \in Texts
    /\ maxWidth \in Widths
    /\ maxHeight \in Heights
    /\ fit = getAdjustedFontAndLines(ctx, text, maxWidth, maxHeight)
    /\ prev = NoPrev
    /\ BoardIdle
    /\ DrawIdle
    /\ AppIdle
    /\ ListIdle
    /\ RestIdle

\* One call of getAdjustedFontAndLines for a cell.
Fit(t, w, h) ==
    /\ text' = t
    /\ maxWidth' = w
    /\ maxHeight' = h
    /\ fit' = getAdjustedFontAndLines(ctx, t, w, h)
    /\ UNCHANGED <<ctx, boardVars, drawVars, appVars, listVars, restVars>>

\* The user edits the cell (types a character, deletes the last one, clears
\* the field) and the cell is fitted again.
FitText(t) ==
    /\ \/ \E ch \in Chars : t = Append(text, ch) /\ text # Undefined
       \/ \E ch \in Chars : text = Append(t, ch)
       \/ text = Undefined /\ t = <<>>
       \/ text = <<>> /\ t = Undefined
    /\ Fit(t, maxWidth, maxHeight)
    /\ prev' = NoPrev

\* The board is resized and the cell is fitted again in its new box.
FitBox(w, h) ==
    /\ Fit(text, w, h)
    /\ prev' = NoPrev

NextFit ==
    \/ \E t \in Texts : FitText(t)
    \/ \E w \in Widths, h \in Heights :
          /\ (w - maxWidth) \in -1 .. 1
          /\ (h - maxHeight) \in -1 .. 1
          /\ (w = maxWidth) # (h = maxHeight)
          /\ FitBox(w, h)

SpecFit == InitFit /\ [][NextFit]_vars

\* The board is enlarged: the same text is fitted in a wider or a higher box,
\* and the size chosen before is remembered.
GrowWidth ==
    /\ maxWidth + 1 \in Widths
    /\ Fit(text, maxWidth + 1, maxHeight)
    /\ prev' = FontSizeOf(fit)

GrowHeight ==
    /\ maxHeight + 1 \in Heights
    /\ Fit(text, maxWidth, maxHeight + 1)
    /\ prev' = FontSizeOf(fit)

NextGrow == GrowWidth \/ GrowHeight

SpecGrow == InitFit /\ [][NextGrow]_vars

\* ------------------------------------------------ properties of the fitter
RECURSIVE Concat(_)
Concat(lines) == IF lines = <<>> THEN <<>> ELSE Head(lines) \o Concat(Tail(lines))

IsPrefix(p, s) == Len(p) <= Len(s) /\ SubSeq(s, 1, Len(p)) = p
Last(s) == s[Len(s)]
EndsWithEllipsis(line) == line # <<>> /\ Last(line) = Ellipsis

\* The measured width of a returned line at the chosen font size.
LineWidth(line) == measureText(ctx, FontSizeOf(fit), line)

NonBlank(s) == ~Falsy(s) /\ ~IsBlank(s)

\* fontSize passes the two height tests of the search loop (lines 114, 132).
FitsAt(fontSize) ==
    /\ LineHeightOf(fontSize) <= maxHeight
    /\ Len(WrapLines(ctx, fontSize, text, maxWidth)) * LineHeightOf(fontSize) <= maxHeight

SearchedSizes == minFontSize .. Floor(maxHeight)

\* C1 (as claimed): whenever the result is not empty, every returned line,
\* measured at the chosen font size, is at most maxWidth wide.
C1_WidthNeverOverflows ==
    fit.lines # <<>> =>
        \A i \in 1 .. Len(fit.lines) : LineWidth(fit.lines[i]) <= maxWidth

\* C2: a result returned from the search loop is at most maxHeight high:
\* lines.length * lineHeight <= maxHeight, with lineHeight = fontSize * 1.4
\* for a searched font size.
C2_HeightNeverOverflows ==
    fit.path = "loop" =>
        /\ Len(fit.lines) * fit.lineHeight <= maxHeight
        /\ \E f \in SearchedSizes : fit.lineHeight = 7 * f

C2_Witness ==
    /\ fit.path = "loop" /\ Len(fit.lines) >= 2 /\ FontSizeOf(fit) >= 2
    /\ Len(fit.lines[1]) >= 2

\* C3: the size returned from the search loop is the largest size of
\* 1 .. floor(maxHeight) that fits; when the result does not come from the
\* loop (and the guard did not reject the input) no size of the range fits.
C3_LargestFittingSize ==
    /\ fit.path = "loop" =>
          /\ FontSizeOf(fit) \in SearchedSizes
          /\ FitsAt(FontSizeOf(fit))
          /\ \A g \in SearchedSizes : g > FontSizeOf(fit) => ~FitsAt(g)
    /\ fit.path \in {"nofit", "truncated", "fallback"} =>
          \A g \in SearchedSizes : ~FitsAt(g)

C3_Witness ==
    /\ fit.path = "loop"
    /\ FontSizeOf(fit) >= 2
    /\ \E g \in SearchedSizes :
          g > FontSizeOf(fit) /\ LineHeightOf(g) <= maxHeight /\ ~FitsAt(g)

\* C4: with the fixed-width measure and the text held fixed, a call with a
\* wider or a higher box than the preceding call does not choose a smaller
\* font size (lineHeight / 1.4, the empty result counting as 0).
C4_Monotone ==
    (ctx = FixedWidthCtx /\ prev # NoPrev) => prev <= FontSizeOf(fit)

C4_Witness ==
    /\ ctx = FixedWidthCtx /\ prev # NoPrev
    /\ 1 <= prev /\ prev < FontSizeOf(fit)
    /\ Len(text) >= 2

\* C5: a missing, empty or whitespace-only text (in any box) and a box with
\* maxWidth <= 0 or maxHeight <= 0 (for any text) give { lines: [], lineHeight: 0 }.
C5_DegenerateInputIsEmpty ==
    (Falsy(text) \/ IsBlank(text) \/ maxWidth <= 0 \/ maxHeight <= 0)
    => (fit.lines = <<>> /\ fit.lineHeight = 0)

C5_Witness ==
    \/ text = <<" ", " ">> /\ maxWidth > 0 /\ maxHeight >= 14 /\ fit.lines = <<>>
    \/ text = <<"a">> /\ maxWidth = 0 /\ maxHeight >= 14 /\ fit.lines = <<>>

\* C6 (as claimed): with the fixed-width measure, when the text wrapped at
\* the minimum font size needs more lines than maxHeight allows (and one line
\* fits), at most max(1, floor(maxHeight / 1.4)) lines are returned, the last
\* one ends with the ellipsis and is at most maxWidth wide.
C6_TruncationFits ==
    (/\ ctx = FixedWidthCtx
     /\ NonBlank(text) /\ maxWidth > 0
     /\ LineHeightOf(minFontSize) <= maxHeight
     /\ \A g \in SearchedSizes : ~FitsAt(g))
    => /\ Len(fit.lines) <= Max(1, maxHeight \div 7)
       /\ fit.lines # <<>>
       /\ EndsWithEllipsis(Last(fit.lines))
       /\ LineWidth(Last(fit.lines)) <= maxWidth

\* C7: for a non-blank text and a positive maxWidth, a maxHeight below the
\* line height of the minimum font size gives the empty result.
C7_TooLowBoxIsEmpty ==
    (NonBlank(text) /\ maxWidth > 0 /\ LineHeightOf(minFontSize) > maxHeight)
    => (fit.lines = <<>> /\ fit.lineHeight = 0)

C7_Witness ==
    NonBlank(text) /\ maxWidth > 0 /\ maxHeight >= 5 /\ fit.path = "nofit"

\* C8: a result of the search loop is the greedy character wrap of the text:
\* the lines concatenate to the text, none is empty, and each line but the
\* last would exceed maxWidth with the first character of its successor; a
\* truncated result, its final ellipsis removed, concatenates to a prefix of
\* the text.
C8_GreedyWrap ==
    LET n == Len(fit.lines) IN
    /\ fit.path = "loop" =>
          /\ Concat(fit.lines) = text
          /\ \A i \in 1 .. n : fit.lines[i] # <<>>
          /\ \A i \in 1 .. n - 1 :
                LineWidth(Append(fit.lines[i], Head(fit.lines[i + 1]))) > maxWidth
    /\ fit.path = "truncated" =>
          /\ EndsWithEllipsis(fit.lines[n])
          /\ IsPrefix(Concat(SubSeq(fit.lines, 1, n - 1))
                         \o SubSeq(fit.lines[n], 1, Len(fit.lines[n]) - 1),
                      text)

C8_Witness ==
    /\ fit.path = "loop" /\ Len(fit.lines) >= 2
    /\ \E i \in 1 .. Len(fit.lines) : Len(fit.lines[i]) >= 2

\* ============================================================== numbers
(***************************************************************************)
(* drawWhiteboard computes its geometry in JavaScript numbers, IEEE 754     *)
(* doubles.  A non-negative finite double is modelled exactly as            *)
(* [m |-> mantissa, e |-> exponent], the number m * 2^e, in normal form: m  *)
(* is odd, or m = 0 and e = 0, so that equal numbers are equal records.     *)
(* Mantissas exceed the integers of the checker: a natural number is a      *)
(* sequence of limbs in base 2^15, least significant first, without         *)
(* leading zero limbs (Big...).  X... are exact operations on dyadic        *)
(* numbers, D... the operations of the machine: the exact result rounded    *)
(* to 53 significant bits, ties to even.  Overflow, underflow and negative  *)
(* results are outside the ranges modelled here.                            *)
(***************************************************************************)
Base == 32768
LimbBits == 15
MantissaBits == 53

RECURSIVE Pow2(_)
Pow2(k) == IF k = 0 THEN 1 ELSE 2 * Pow2(k - 1)

RECURSIVE BigNorm(_)
BigNorm(a) ==
    IF a = <<>> THEN <<>>
    ELSE IF a[Len(a)] = 0 THEN BigNorm(SubSeq(a, 1, Len(a) - 1)) ELSE a

RECURSIVE BigFromNat(_)
BigFromNat(n) == IF n = 0 THEN <<>> ELSE <<n % Base>> \o BigFromNat(n \div Base)

Limb(a, i) == IF i <= Len(a) THEN a[i] ELSE 0

RECURSIVE BigAddFrom(_, _, _, _)
BigAddFrom(a, b, i, carry) ==
    IF i > Len(a) /\ i > Len(b)
    THEN IF carry = 0 THEN <<>> ELSE <<carry>>
    ELSE LET t == Limb(a, i) + Limb(b, i) + carry
         IN  <<t % Base>> \o BigAddFrom(a, b, i + 1, t \div Base)

BigAdd(a, b) == BigAddFrom(a, b, 1, 0)

\* a - b, for a >= b
RECURSIVE BigSubFrom(_, _, _, _)
BigSubFrom(a, b, i, borrow) ==
    IF i > Len(a) THEN <<>>
    ELSE LET t == Limb(a, i) - Limb(b, i) - borrow
         IN  IF t < 0 THEN <<t + Base>> \o BigSubFrom(a, b, i + 1, 1)
                      ELSE <<t>> \o BigSubFrom(a, b, i + 1, 0)

BigSub(a, b) == BigNorm(BigSubFrom(a, b, 1, 0))

\* -1, 0, 1 as a < b, a = b, a > b
RECURSIVE BigCmpFrom(_, _, _)
BigCmpFrom(a, b, i) ==
    IF i = 0 THEN 0
    ELSE IF a[i] < b[i] THEN -1
    ELSE IF a[i] > b[i] THEN 1
    ELSE BigCmpFrom(a, b, i - 1)

BigCmp(a, b) ==
    IF Len(a) < Len(b) THEN -1
    ELSE IF Len(a) > Len(b) THEN 1
    ELSE BigCmpFrom(a, b, Len(a))

RECURSIVE BigMulSmallFrom(_, _, _, _)
BigMulSmallFrom(a, k, i, carry) ==
    IF i > Len(a) THEN IF carry = 0 THEN <<>> ELSE <<carry>>
    ELSE LET t == a[i] * k + carry
         IN  <<t % Base>> \o BigMulSmallFrom(a, k, i + 1, t \div Base)

\* a * k, for a limb k
BigMulSmall(a, k) == IF k = 0 THEN <<>> ELSE BigMulSmallFrom(a, k, 1, 0)

RECURSIVE BigMul(_, _)
BigMul(a, b) ==
    IF a = <<>> \/ b = <<>> THEN <<>>
    ELSE LET rest == BigMul(a, Tail(b))
         IN  BigAdd(BigMulSmall(a, Head(b)),
                    IF rest = <<>> THEN <<>> ELSE <<0>> \o rest)

\* 2^k
BigPow2(k) == [i \in 1 .. (k \div LimbBits) |-> 0] \o <<Pow2(k % LimbBits)>>

\* a * 2^k
BigShl(a, k) == BigMul(a, BigPow2(k))

RECURSIVE BigDivSmallFrom(_, _, _, _)
BigDivSmallFrom(a, d, i, rem) ==
    IF i = 0 THEN <<>>
    ELSE LET t == rem * Base + a[i]
         IN  BigDivSmallFrom(a, d, i - 1, t % d) \o <<t \div d>>

\* floor(a / 2^k)
BigShr(a, k) ==
    LET whole == k \div LimbBits
        high == IF whole >= Len(a) THEN <<>> ELSE SubSeq(a, whole + 1, Len(a))
    IN  BigNorm(BigDivSmallFrom(high, Pow2(k % LimbBits), Len(high), 0))

RECURSIVE BitLenSmall(_)
BitLenSmall(n) == IF n = 0 THEN 0 ELSE 1 + BitLenSmall(n \div 2)

BigBitLen(a) ==
    IF a = <<>> THEN 0 ELSE LimbBits * (Len(a) - 1) + BitLenSmall(a[Len(a)])

BigIsOdd(a) == a # <<>> /\ a[1] % 2 = 1

\* bit i (from 0) of a
BigBit(a, i) == (Limb(a, i \div LimbBits + 1) \div Pow2(i % LimbBits)) % 2

\* the number of trailing zero bits of a # 0
RECURSIVE TrailingZerosSmall(_)
TrailingZerosSmall(n) == IF n % 2 = 1 THEN 0 ELSE 1 + TrailingZerosSmall(n \div 2)

RECURSIVE BigTrailingZerosFrom(_, _)
BigTrailingZerosFrom(a, i) ==
    IF a[i] = 0 THEN LimbBits + BigTrailingZerosFrom(a, i + 1)
    ELSE TrailingZerosSmall(a[i])

\* The largest digit t in lo .. hi with d * t <= r, given d * lo <= r.
RECURSIVE DigitSearch(_, _, _, _)
DigitSearch(r, d, lo, hi) ==
    IF lo = hi THEN lo
    ELSE LET mid == (lo + hi + 1) \div 2
         IN  IF BigCmp(BigMulSmall(d, mid), r) <= 0
             THEN DigitSearch(r, d, mid, hi)
             ELSE DigitSearch(r, d, lo, mid - 1)

\* Long division, limb by limb from limb i of n downwards: [q, r] with
\* n = q * d + r and r < d.
RECURSIVE BigDivModFrom(_, _, _, _, _)
BigDivModFrom(n, d, i, q, r) ==
    IF i = 0 THEN [q |-> BigNorm(q), r |-> r]
    ELSE LET r2 == BigNorm(<<n[i]>> \o r)
             t == DigitSearch(r2, d, 0, Base - 1)
         IN  IF t = 0
             THEN BigDivModFrom(n, d, i - 1, <<0>> \o q, r2)
             ELSE BigDivModFrom(n, d, i - 1, <<t>> \o q, BigSub(r2, BigMulSmall(d, t)))

\* The same by limbs, for a divisor of one limb.
RECURSIVE BigRemSmallFrom(_, _, _, _)
BigRemSmallFrom(a, d, i, rem) ==
    IF i = 0 THEN rem ELSE BigRemSmallFrom(a, d, i - 1, (rem * Base + a[i]) % d)

BigDivMod(n, d) ==
    IF Len(d) = 1
    THEN [q |-> BigNorm(BigDivSmallFrom(n, d[1], Len(n), 0)),
          r |-> BigFromNat(BigRemSmallFrom(n, d[1], Len(n), 0))]
    ELSE BigDivModFrom(n, d, Len(n), <<>>, <<>>)

\* ------------------------------------------------------ dyadic numbers
Zero == [m |-> <<>>, e |-> 0]

\* the normal form of m * 2^e
XNorm(m, e) ==
    IF m = <<>> THEN Zero
    ELSE LET z == BigTrailingZerosFrom(m, 1)
         IN  [m |-> BigShr(m, z), e |-> e + z]

FromNat(n) == XNorm(BigFromNat(n), 0)

XMul(x, y) == XNorm(BigMul(x.m, y.m), x.e + y.e)

MinOf(a, b) == IF a <= b THEN a ELSE b

\* the mantissa of x at the exponent e <= x.e
MantissaAt(x, e) == BigShl(x.m, x.e - e)

XAdd(x, y) ==
    LET e == MinOf(x.e, y.e)
    IN  XNorm(BigAdd(MantissaAt(x, e), MantissaAt(y, e)), e)

XCmp(x, y) ==
    LET e == MinOf(x.e, y.e)
    IN  BigCmp(MantissaAt(x, e), MantissaAt(y, e))

XLe(x, y) == XCmp(x, y) <= 0

\* | x - y |
XAbsDiff(x, y) ==
    LET e == MinOf(x.e, y.e)
        a == MantissaAt(x, e)
        b == MantissaAt(y, e)
    IN  IF BigCmp(a, b) >= 0 THEN XNorm(BigSub(a, b), e) ELSE XNorm(BigSub(b, a), e)

\* x * 2^k, for any integer k
XScale(x, k) == IF x = Zero THEN Zero ELSE [m |-> x.m, e |-> x.e + k]

\* ------------------------------------------------------------ doubles
\* m * 2^e rounded to the nearest double, ties to even
Round(m, e) ==
    LET n == BigBitLen(m)
    IN  IF n <= MantissaBits THEN XNorm(m, e)
        ELSE LET sh == n - MantissaBits
                 q == BigShr(m, sh)
                 r == BigSub(m, BigShl(q, sh))
                 c == BigCmp(r, BigPow2(sh - 1))
             IN  IF c > 0 \/ (c = 0 /\ BigIsOdd(q))
                 THEN XNorm(BigAdd(q, <<1>>), e + sh)
                 ELSE XNorm(q, e + sh)

DMul(x, y) ==
    IF x = Zero \/ y = Zero THEN Zero
    ELSE Round(BigMul(x.m, y.m), x.e + y.e)

DAdd(x, y) ==
    IF x = Zero THEN y
    ELSE IF y = Zero THEN x
    ELSE LET e == MinOf(x.e, y.e)
         IN  Round(BigAdd(MantissaAt(x, e), MantissaAt(y, e)), e)

\* x - y, for x >= y
DSub(x, y) ==
    IF x = y THEN Zero
    ELSE IF y = Zero THEN x
    ELSE LET e == MinOf(x.e, y.e)
         IN  Round(BigSub(MantissaAt(x, e), MantissaAt(y, e)), e)

\* x / y, for y # 0: the quotient to MantissaBits + 2 bits or more and a
\* sticky bit for the remainder, then rounded
DDiv(x, y) ==
    IF x = Zero THEN Zero
    ELSE IF x = y THEN FromNat(1)
    ELSE LET k == MantissaBits + 2 + BigBitLen(y.m)
             dm == BigDivMod(BigShl(x.m, k), y.m)
             sticky == IF dm.r = <<>> THEN <<>> ELSE <<1>>
         IN  Round(BigAdd(BigAdd(dm.q, dm.q), sticky), x.e - y.e - k - 1)

\* the double written as the decimal literal n / 10^d
RECURSIVE Pow10(_)
Pow10(d) == IF d = 0 THEN 1 ELSE 10 * Pow10(d - 1)

Literal(n, d) == DDiv(FromNat(n), FromNat(Pow10(d)))

\* ========================================================= the compositor
NUM_ROWS == 5
NUM_COLS == 2

\* the characters of the date format, by code point
Nen == "U+5E74"
Gatsu == "U+6708"
Nichi == "U+65E5"
Digits == {"0", "1", "2", "3", "4", "5", "6", "7", "8", "9"}

\* texts[i], with the indices of the source (from 0)
At(ts, i) == ts[i + 1]

\* The pattern /^\d{4}-\d{2}-\d{2}$/: "d" stands for \d, the anchors make it
\* a pattern of the whole string.
DatePattern == <<"d", "d", "d", "d", "-", "d", "d", "-", "d", "d">>

\* s[from + 1 .. from + Len(pattern)] matches the pattern
MatchesAt(pattern, s, from) ==
    /\ from + Len(pattern) <= Len(s)
    /\ \A i \in 1 .. Len(pattern) :
          IF pattern[i] = "d" THEN s[from + i] \in Digits ELSE s[from + i] = pattern[i]

\* Mutant of RegExpTest: the pattern without its anchors, /\d{4}-\d{2}-\d{2}/.
RegExpTestUnanchored(pattern, s) ==
    \E from \in 0 .. Len(s) : MatchesAt(pattern, s, from)

\* /^...$/.test(s)
RegExpTest(pattern, s) == Len(s) = Len(pattern) /\ MatchesAt(pattern, s, 0)

\* s.split(sep)
RECURSIVE SplitFrom(_, _, _, _)
SplitFrom(s, sep, i, current) ==
    IF i > Len(s) THEN <<current>>
    ELSE IF s[i] = sep THEN <<current>> \o SplitFrom(s, sep, i + 1, <<>>)
    ELSE SplitFrom(s, sep, i + 1, Append(current, s[i]))

Split(s, sep) == SplitFrom(s, sep, 1, <<>>)

\* Lines 189-193 of drawWhiteboard: the copy of the texts with the date of index 7 rewritten for display.
TextsToDraw(ts) ==
    IF ~Falsy(At(ts, 7)) /\ RegExpTest(DatePattern, At(ts, 7))
    THEN LET parts == Split(At(ts, 7), "-")
             year == parts[1]
             month == parts[2]
             day == parts[3]
         IN  [ts EXCEPT ![8] = year \o <<Nen>> \o month \o <<Gatsu>> \o day \o <<Nichi>>]
    ELSE ts

\* The same lines of the older variant.
LegacyTextsToDraw(ts) ==
    IF ~Falsy(At(ts, 7)) /\ RegExpTest(DatePattern, At(ts, 7))
    THEN LET parts == Split(At(ts, 7), "-")
             year == parts[1]
             month == parts[2]
             day == parts[3]
         IN  [ts EXCEPT ![8] = year \o <<Nen>> \o month \o <<Gatsu>> \o day \o <<Nichi>>]
    ELSE ts

TextsToDrawOf(v, ts) ==
    IF v = "canonical" THEN TextsToDraw(ts) ELSE LegacyTextsToDraw(ts)

\* The numbers of the geometry.
BorderFraction == Literal(25, 3)      \* 0.025
TextFraction == Literal(15, 3)        \* 0.015
LabelColumn == Literal(3, 1)          \* 0.3
ValueColumn == Literal(7, 1)          \* 0.7
Two == FromNat(2)
LegacyBorderPadding == FromNat(8)
LegacyTextPadding == FromNat(5)

\* Mutant of GridLayout: the value column is taken from the board width
\* instead of the grid width.
GridLayoutBoardColumn(borderPadding, textPadding, bw, bh) ==
    LET Columns(gridWidth, gridHeight, colWidths) ==
            [borderPadding |-> borderPadding,
             textPadding |-> textPadding,
             gridWidth |-> gridWidth,
             gridHeight |-> gridHeight,
             colWidths |-> colWidths,
             cellHeight |-> DDiv(gridHeight, FromNat(NUM_ROWS)),
             verticalLineX |-> DAdd(borderPadding, colWidths[1])]
        Grid(gridWidth, gridHeight) ==
            Columns(gridWidth, gridHeight,
                    <<DMul(gridWidth, LabelColumn), DMul(bw, ValueColumn)>>)
    IN  Grid(DSub(bw, DMul(borderPadding, Two)), DSub(bh, DMul(borderPadding, Two)))

\* The geometry of drawWhiteboard from its two paddings on: the grid, the
\* two columns, the rows, and the x of the column separator (lines 182-186
\* and 218).
GridLayout(borderPadding, textPadding, bw, bh) ==
    LET Columns(gridWidth, gridHeight, colWidths) ==
            [borderPadding |-> borderPadding,
             textPadding |-> textPadding,
             gridWidth |-> gridWidth,
             gridHeight |-> gridHeight,
             colWidths |-> colWidths,
             cellHeight |-> DDiv(gridHeight, FromNat(NUM_ROWS)),
             verticalLineX |-> DAdd(borderPadding, colWidths[1])]
        Grid(gridWidth, gridHeight) ==
            Columns(gridWidth, gridHeight,
                    <<DMul(gridWidth, LabelColumn), DMul(gridWidth, ValueColumn)>>)
    IN  Grid(DSub(bw, DMul(borderPadding, Two)), DSub(bh, DMul(borderPadding, Two)))

\* Mutant of CanonicalLayout: paddings of a fixed pixel each.
CanonicalLayoutFixedPadding(bw, bh) == GridLayout(FromNat(1), FromNat(1), bw, bh)

\* The current drawWhiteboard: paddings proportional to the board width.
CanonicalLayout(bw, bh) ==
    GridLayout(DMul(bw, BorderFraction), DMul(bw, TextFraction), bw, bh)

\* The older drawWhiteboard: paddings of 8 and 5 pixels.
LegacyLayout(bw, bh) == GridLayout(LegacyBorderPadding, LegacyTextPadding, bw, bh)

LayoutOf(v, bw, bh) ==
    IF v = "canonical" THEN CanonicalLayout(FromNat(bw), FromNat(bh))
    ELSE LegacyLayout(FromNat(bw), FromNat(bh))

\* ------------------------------------------------------ bounds of the board
MaxDW == 3         \* board widths of 101 .. 101 + MaxDW pixels, and 1000
MaxDH == 2         \* board heights of 60 .. 60 + MaxDH pixels, and 800

BoardWidths == (101 .. 101 + MaxDW) \cup {1000}
BoardHeights == (60 .. 60 + MaxDH) \cup {800}
Variants == {"canonical", "legacy"}

\* the texts of a cell that the board is drawn with
IsoDate == <<"2", "0", "2", "4", "-", "0", "3", "-", "0", "5">>
NotADate == <<"n", "o", "t", "-", "a", "-", "d", "a", "t", "e">>
CellTexts ==
    { IsoDate,
      NotADate,
      <<"2", "0", "2", "4", "-", "3", "-", "5">>,
      <<"x">> \o IsoDate,
      IsoDate \o <<" ">>,
      <<>>,
      Undefined }

\* whiteboardTexts as the App initialises it (lines 262-275), with the value
\* of cell 1 and the date of cell 7 given
BoardTexts(value, date) ==
    << <<"U+8A2D", "U+5099">>, value,
       <<"U+5BFE", "U+8C61">>, <<>>,
       <<"U+7A2E", "U+985E">>, <<>>,
       <<"U+65E5", "U+4ED8">>, date,
       <<>>, <<"U+30AD", "U+30E5", "U+30A6", "U+30BB", "U+30C4", "A", "Q", "U", "A",
               "U+FF08", "U+682A", "U+FF09">> >>

ValueTexts == {<<>>, IsoDate}

FitIdle ==
    /\ ctx = FixedWidthCtx
    /\ text = <<>>
    /\ maxWidth = 0
    /\ maxHeight = 0
    /\ fit = [lines |-> <<>>, lineHeight |-> 0, path |-> "guard"]
    /\ prev = NoPrev

\* Mutant of drawWhiteboardArrays: textsToDraw is the caller's array itself
\* (const textsToDraw = texts), so the date is rewritten in place.
drawWhiteboardArraysShared(v, ts) ==
    LET rewritten == TextsToDrawOf(v, ts)
    IN  [texts |-> rewritten, textsToDraw |-> rewritten]

\* The two arrays of a call when line 193 is passed: the caller's array, which
\* the parameter texts refers to, and the array textsToDraw that line 189
\* allocates ([...texts]) and lines 190-193 write to.
drawWhiteboardArrays(v, ts) ==
    LET cloned == [texts |-> ts, textsToDraw |-> ts]
    IN  [cloned EXCEPT !.textsToDraw = TextsToDrawOf(v, cloned.textsToDraw)]

\* One call drawWhiteboard(context, bw, bh, ts) of the variant v, as far as
\* its arrays and its geometry go; texts is the argument as it was passed.
\* The operations the call issues to its surface are drawWhiteboardOps.
drawWhiteboard(v, bw, bh, ts) ==
    LET arrays == drawWhiteboardArrays(v, ts)
    IN  /\ boardWidth' = bw
        /\ boardHeight' = bh
        /\ texts' = ts
        /\ layout' = LayoutOf(v, bw, bh)
        /\ textsToDraw' = arrays.textsToDraw
        /\ whiteboardTexts' = arrays.texts
        /\ UNCHANGED <<variant, fitVars>>

InitBoard ==
    /\ variant \in Variants
    /\ boardWidth \in BoardWidths
    /\ boardHeight \in BoardHeights
    /\ texts \in {BoardTexts(value, date) : value \in ValueTexts, date \in CellTexts}
    /\ layout = LayoutOf(variant, boardWidth, boardHeight)
    /\ textsToDraw = drawWhiteboardArrays(variant, texts).textsToDraw
    /\ whiteboardTexts = drawWhiteboardArrays(variant, texts).texts
    /\ FitIdle
    /\ DrawIdle
    /\ AppIdle
    /\ ListIdle
    /\ RestIdle

\* The user changes the text of cell i (handleTextChange: a copy of the
\* stored array with the new text at i) and the preview is drawn again.
EditText(i, t) ==
    /\ drawWhiteboard(variant, boardWidth, boardHeight,
                      [whiteboardTexts EXCEPT ![i + 1] = t])
    /\ UNCHANGED <<drawVars, appVars, listVars, restVars>>

\* The board gets another size (the preview is scaled, or the photo is
\* captured at the resolution of the camera) and is drawn again.
ResizeBoard(bw, bh) ==
    /\ drawWhiteboard(variant, bw, bh, whiteboardTexts)
    /\ UNCHANGED <<drawVars, appVars, listVars, restVars>>

NextBoard ==
    \/ \E t \in CellTexts : EditText(7, t)
    \/ \E t \in ValueTexts : EditText(1, t)
    \/ \E bw \in BoardWidths : ResizeBoard(bw, boardHeight)
    \/ \E bh \in BoardHeights : ResizeBoard(boardWidth, bh)

SpecBoard == InitBoard /\ [][NextBoard]_vars

\* ============================================================ the drawing
(***************************************************************************)
(* The operations drawWhiteboard issues to its 2D context, in the order of *)
(* the source.  An operation is a record: its name (op), its numeric       *)
(* arguments as doubles (args), its string value (value) and, for          *)
(* fillText, the string drawn (text).  The field cell tells which cell of  *)
(* the grid an operation belongs to (row * NUM_COLS + col by position, -1  *)
(* for the background and the grid).  The assignments to context.font that *)
(* getAdjustedFontAndLines makes are operations on the context too.        *)
(***************************************************************************)
Op(name, args, value, str, cell) ==
    [op |-> name, args |-> args, value |-> value, text |-> str, cell |-> cell]

RECURSIVE BigToNat(_)
BigToNat(a) == IF a = <<>> THEN 0 ELSE Head(a) + Base * BigToNat(Tail(a))

\* Math.floor of a double x >= 0
MathFloor(x) ==
    BigToNat(IF x.e >= 0 THEN BigShl(x.m, x.e) ELSE BigShr(x.m, -x.e))

\* x - y with its sign, for doubles x, y >= 0
Minus(x, y) ==
    IF XLe(y, x) THEN [neg |-> FALSE, abs |-> DSub(x, y)]
    ELSE [neg |-> TRUE, abs |-> DSub(y, x)]

\* d <= 0
NonPositive(d) == d.neg \/ d.abs = Zero

LineHeightFactor == Literal(14, 1)     \* 1.4

\* The measure of the board's context: every glyph advances by the font
\* size, as the full-width glyphs of the font do.  Measured widths are whole
\* numbers, so that width > maxWidth exactly when width > Math.floor(maxWidth).
CharsOf(ts) == UNION {{ts[i][k] : k \in 1 .. Len(ts[i])} : i \in 1 .. Len(ts)}
BoardCtx(ts) == [adv |-> [ch \in CharsOf(ts) \cup {Ellipsis} |-> 1]]

\* The sizes assigned to ctx.font by the loop of line 110 from the size
\* first down to the size last.
FontsTried(first, last) == [k \in 1 .. (first - last + 1) |-> first - k + 1]

\* Lines 137-172 with the box in doubles; first is the size the search
\* started from.
FallbackFitIn(c, s, mw, mh, first) ==
    LET fallbackFontSize == minFontSize
        assigned == Append(FontsTried(first, minFontSize), fallbackFontSize)
        Truncated(truncatedLines, n, overflows, fallbackLineHeight) ==
            IF overflows /\ n > 0
            THEN [lines |-> [truncatedLines EXCEPT ![n] =
                               Append(TrimForEllipsis(c, fallbackFontSize,
                                                      truncatedLines[n],
                                                      MathFloor(mw)),
                                      Ellipsis)],
                  lineHeight |-> fallbackLineHeight, path |-> "truncated",
                  fonts |-> assigned]
            ELSE [lines |-> truncatedLines,
                  lineHeight |-> fallbackLineHeight, path |-> "fallback",
                  fonts |-> assigned]
        Wrapped(lines, maxLines, fallbackLineHeight) ==
            Truncated(SubSeq(lines, 1, IF Len(lines) < maxLines
                                       THEN Len(lines) ELSE maxLines),
                      IF Len(lines) < maxLines THEN Len(lines) ELSE maxLines,
                      Len(lines) > maxLines, fallbackLineHeight)
        Fallback(fallbackLineHeight) ==
            IF XCmp(fallbackLineHeight, mh) > 0
            THEN [lines |-> <<>>, lineHeight |-> Zero, path |-> "nofit", fonts |-> assigned]
            ELSE Wrapped(WrapLines(c, fallbackFontSize, s, MathFloor(mw)),
                         Max(1, MathFloor(DDiv(mh, fallbackLineHeight))),
                         fallbackLineHeight)
    IN  Fallback(DMul(FromNat(fallbackFontSize), LineHeightFactor))

\* Lines 110-135 with the box in doubles, from the size fontSize on.
RECURSIVE SearchFromIn(_, _, _, _, _, _)
SearchFromIn(c, s, mw, mh, fontSize, first) ==
    IF fontSize < minFontSize THEN FallbackFitIn(c, s, mw, mh, first)
    ELSE LET Wrapped(lines, lineHeight) ==
                 IF XLe(DMul(FromNat(Len(lines)), lineHeight), mh)
                 THEN [lines |-> lines, lineHeight |-> lineHeight,
                       path |-> "loop", fonts |-> FontsTried(first, fontSize)]
                 ELSE SearchFromIn(c, s, mw, mh, fontSize - 1, first)
             Tried(lineHeight) ==
                 IF XCmp(lineHeight, mh) > 0
                 THEN SearchFromIn(c, s, mw, mh, fontSize - 1, first)
                 ELSE Wrapped(WrapLines(c, fontSize, s, MathFloor(mw)), lineHeight)
         IN  Tried(DMul(FromNat(fontSize), LineHeightFactor))

\* getAdjustedFontAndLines as drawWhiteboard calls it: the box is a pair of
\* signed doubles.
getAdjustedFontAndLinesIn(c, s, mw, mh) ==
    IF Falsy(s) \/ IsBlank(s) \/ NonPositive(mw) \/ NonPositive(mh)
    THEN [lines |-> <<>>, lineHeight |-> Zero, path |-> "guard", fonts |-> <<>>]
    ELSE SearchFromIn(c, s, mw.abs, mh.abs, MathFloor(mh.abs), MathFloor(mh.abs))

\* ctx.font = `900 ${fontSize}px 'Noto Serif JP', serif`, once per size tried
FontOps(fonts, cell) ==
    [k \in 1 .. Len(fonts) |->
        Op("font", <<FromNat(fonts[k])>>, "900 px 'Noto Serif JP', serif", <<>>, cell)]

\* lines.forEach of lines 250-253, from line k on
RECURSIVE LineOps(_, _, _, _, _, _)
LineOps(lines, k, textStartX, textStartY, lineHeight, cell) ==
    IF k > Len(lines) THEN <<>>
    ELSE <<Op("fillText", <<textStartX, textStartY>>, "", lines[k], cell)>>
         \o LineOps(lines, k + 1, textStartX, DAdd(textStartY, lineHeight),
                    lineHeight, cell)

\* Mutant of CellIndex: the text of a cell is looked up by row + col.
CellIndexBySum(row, col) == row + col

\* Line 229: the index of the text of the cell (row, col).
CellIndex(row, col) == row * NUM_COLS + col

\* The body of the loops of lines 227-256 for the cell (row, col), with the
\* geometry L, the measure c and the texts to draw ts.
CellOps(L, c, ts, row, col) ==
    LET index == CellIndex(row, col)
        currentCellWidth == L.colWidths[col + 1]
        cell == row * NUM_COLS + col
        Text(fitted, textStartX, textStartY) ==
            LineOps(fitted.lines, 1, textStartX, textStartY, fitted.lineHeight, cell)
        Block(fitted, cellLeftX, cellTopY, textBlockHeight) ==
            Text(fitted,
                 DAdd(cellLeftX, DDiv(currentCellWidth, Two)),
                 DAdd(DSub(DAdd(cellTopY, DDiv(L.cellHeight, Two)),
                           DDiv(textBlockHeight, Two)),
                      DDiv(fitted.lineHeight, Two)))
        Drawn(fitted) ==
            FontOps(fitted.fonts, cell) \o
            IF Len(fitted.lines) > 0
            THEN Block(fitted,
                       DAdd(L.borderPadding, IF col = 0 THEN Zero ELSE L.colWidths[1]),
                       DAdd(L.borderPadding, DMul(FromNat(row), L.cellHeight)),
                       DMul(FromNat(Len(fitted.lines)), fitted.lineHeight))
            ELSE <<>>
        Fitted(pad) ==
            getAdjustedFontAndLinesIn(c, At(ts, index),
                                      Minus(currentCellWidth, pad),
                                      Minus(L.cellHeight, pad))
    IN  Drawn(Fitted(DMul(L.textPadding, Two)))

\* The loops of lines 227-256, from the cell of position k on (row by row).
RECURSIVE CellsFrom(_, _, _, _)
CellsFrom(L, c, ts, k) ==
    IF k >= NUM_ROWS * NUM_COLS THEN <<>>
    ELSE CellOps(L, c, ts, k \div NUM_COLS, k % NUM_COLS) \o CellsFrom(L, c, ts, k + 1)

\* Lines 195-206: the white board and its two frames.
BackgroundOps(L, bw, bh) ==
    << Op("fillStyle", <<>>, "white", <<>>, -1),
       Op("fillRect", <<Zero, Zero, bw, bh>>, "", <<>>, -1),
       Op("strokeStyle", <<>>, "#1a1a1a", <<>>, -1),
       Op("lineWidth", <<FromNat(2)>>, "", <<>>, -1),
       Op("strokeRect", <<Zero, Zero, bw, bh>>, "", <<>>, -1),
       Op("strokeRect", <<L.borderPadding, L.borderPadding, L.gridWidth, L.gridHeight>>,
          "", <<>>, -1) >>

\* The loop of lines 212-216, from row i on.
RECURSIVE RowLineOps(_, _, _)
RowLineOps(L, bw, i) ==
    IF i >= NUM_ROWS THEN <<>>
    ELSE LET y == DAdd(L.borderPadding, DMul(FromNat(i), L.cellHeight))
         IN  << Op("moveTo", <<L.borderPadding, y>>, "", <<>>, -1),
                Op("lineTo", <<DSub(bw, L.borderPadding), y>>, "", <<>>, -1) >>
             \o RowLineOps(L, bw, i + 1)

\* Lines 208-225: the separators of the rows and of the columns, then the
\* style of the text.
GridOps(L, bw, bh) ==
    << Op("strokeStyle", <<>>, "#cccccc", <<>>, -1),
       Op("lineWidth", <<FromNat(1)>>, "", <<>>, -1),
       Op("beginPath", <<>>, "", <<>>, -1) >>
    \o RowLineOps(L, bw, 1)
    \o << Op("moveTo", <<L.verticalLineX, L.borderPadding>>, "", <<>>, -1),
          Op("lineTo", <<L.verticalLineX, DAdd(L.borderPadding, L.gridHeight)>>,
             "", <<>>, -1),
          Op("stroke", <<>>, "", <<>>, -1),
          Op("fillStyle", <<>>, "#1a1a1a", <<>>, -1),
          Op("textAlign", <<>>, "center", <<>>, -1),
          Op("textBaseline", <<>>, "middle", <<>>, -1) >>

\* Mutant of drawWhiteboardOps: the cells are drawn before the board and
\* its grid.
drawWhiteboardOpsTextFirst(L, drawn, bw, bh) ==
    CellsFrom(L, BoardCtx(drawn), drawn, 0)
    \o BackgroundOps(L, bw, bh) \o GridOps(L, bw, bh)

\* The operations of one call drawWhiteboard(context, bw, bh, texts) of the
\* current variant (lines 195-256): L is the geometry of lines 179-187 and
\* drawn the array textsToDraw of lines 189-193; bw and bh are doubles.
drawWhiteboardOps(L, drawn, bw, bh) ==
    BackgroundOps(L, bw, bh) \o GridOps(L, bw, bh)
    \o CellsFrom(L, BoardCtx(drawn), drawn, 0)

\* ---------------------------------------------------- bounds of the drawing
MaxBoards == 2     \* the boards of 17 x 11, 33 x 21, ... (16k + 1 by 10k + 1)

\* Boards at the aspect the preview gives them (30% by 25% of a 4:3 area,
\* the canvas taking the whole pixels of its box).
DrawBoards == {<<16 * k + 1, 10 * k + 1>> : k \in 1 .. MaxBoards}

\* A board as narrow as a caller of drawWhiteboard may pass.
NarrowBoards == {<<5, 40>>}

LongValue == [i \in 1 .. 22 |-> "x"]
DrawValues == {<<>>, LongValue}
DrawDates == {<<>>, IsoDate}
DrawTexts == {BoardTexts(value, date) : value \in DrawValues, date \in DrawDates}

\* Mutant of FreshSurface: the surface of the call before is drawn on again.
FreshSurfaceUsed(used) == used

\* The surface a call draws on: a new one (for the preview, the canvas that
\* the assignment to canvas.width resets); used is the surface of the call
\* before.
FreshSurface(used) == <<>>

\* One call of drawWhiteboard on a fresh surface, with what it issues.
Render(kind, j, bw, bh, ts) ==
    /\ drawWhiteboard("canonical", bw, bh, ts)
    /\ ops' = FreshSurface(ops)
                  \o drawWhiteboardOps(layout', textsToDraw', FromNat(bw), FromNat(bh))
    /\ prevOps' = ops
    /\ prevLayout' = layout
    /\ drawKind' = kind
    /\ edited' = j
    /\ UNCHANGED <<appVars, listVars, restVars>>

InitDraw ==
    /\ variant = "canonical"
    /\ \E b \in DrawBoards \cup NarrowBoards : boardWidth = b[1] /\ boardHeight = b[2]
    /\ texts \in DrawTexts
    /\ layout = LayoutOf(variant, boardWidth, boardHeight)
    /\ textsToDraw = drawWhiteboardArrays(variant, texts).textsToDraw
    /\ whiteboardTexts = drawWhiteboardArrays(variant, texts).texts
    /\ ops = drawWhiteboardOps(layout, textsToDraw,
                             FromNat(boardWidth), FromNat(boardHeight))
    /\ prevOps = <<>>
    /\ prevLayout = <<>>
    /\ drawKind = "first"
    /\ edited = -1
    /\ FitIdle
    /\ AppIdle
    /\ ListIdle
    /\ RestIdle

\* The same call again (identical arguments, another fresh surface).
DrawAgain == Render("again", -1, boardWidth, boardHeight, whiteboardTexts)

\* The text of cell j is changed and the board is drawn again.
DrawEdit(j, t) ==
    /\ At(whiteboardTexts, j) # t
    /\ Render("edit", j, boardWidth, boardHeight, [whiteboardTexts EXCEPT ![j + 1] = t])

\* The board is drawn at another size.
DrawResize(b) ==
    /\ b # <<boardWidth, boardHeight>>
    /\ Render("resize", -1, b[1], b[2], whiteboardTexts)

\* The board is drawn at twice its width and height.
DrawDouble ==
    /\ <<boardWidth, boardHeight>> \in DrawBoards
    /\ Render("double", -1, 2 * boardWidth, 2 * boardHeight, whiteboardTexts)

NextDraw ==
    \/ DrawAgain
    \/ \E t \in DrawValues : DrawEdit(1, t)
    \/ \E t \in DrawDates : DrawEdit(7, t)
    \/ \E b \in DrawBoards \cup NarrowBoards : DrawResize(b)
    \/ DrawDouble

SpecDraw == InitDraw /\ [][NextDraw]_vars

\* ================================================================ the App
(***************************************************************************)
(* The component App: its state, its effects and its handlers.  An effect  *)
(* runs with the handler that changed one of its dependencies.  The two    *)
(* renders of the board are recorded by their invocation (invoked); what   *)
(* they draw is the subject of the drawing above.  The controls exist as   *)
(* the markup renders them (lines 612-706).                                *)
(***************************************************************************)
NoPhoto == "null"          \* imageSrc === null
Photo == "photo"           \* canvas.toDataURL('image/jpeg')
NoCountdown == -1          \* countdown === null
TimerSeconds == 10         \* setCountdown(10)
HaveNothing == 0           \* video.readyState
HaveEnoughData == 4

\* the box of main (flex-1 aspect-[4/3] within max-w-lg), in pixels
MainWidth == 480
MainHeight == 360

TargetAspectRatio == DDiv(FromNat(4), FromNat(3))      \* 4 / 3
BoardWidthFraction == Literal(3, 1)                    \* 0.3
BoardHeightFraction == Literal(25, 2)                  \* 0.25
Half == Literal(5, 1)
Hundred == FromNat(100)
Unsigned(x) == [neg |-> FALSE, abs |-> x]

\* ---------------------------------------------------- bounds of the App
MaxFrame == 1      \* video frames of 1280 x 720, 1280 x 800, ... (80 higher each)

VideoFrames ==
    {<<640, 480>>, <<480, 640>>} \cup {<<1280, 720 + 80 * k>> : k \in 0 .. MaxFrame}

\* values of the slider (min 0.5, max 1.5, step 0.05)
ScaleValues == {Literal(7, 1), FromNat(1), Literal(15, 1)}

\* where a drag leaves the pointer, relative to main and to the grip
DragPoints == {101, 1000}

\* offsetWidth, offsetHeight: percent % of a length of whole pixels, rounded
\* to whole pixels
OffsetSize(percent, whole) ==
    MathFloor(DAdd(DDiv(DMul(percent, FromNat(whole)), Hundred), Half))

\* the box of the overlay canvas (style of lines 622-626)
OverlayWidth(scale) == OffsetSize(DMul(FromNat(30), scale), MainWidth)
OverlayHeight(scale) == OffsetSize(DMul(FromNat(25), scale), MainHeight)

\* canvas.width = x, canvas.height = x: the attribute is an unsigned long,
\* the fraction of x is dropped
ToCanvasSize(x) == MathFloor(x)

\* d / 2 for a signed d
HalfOf(d) == [neg |-> d.neg, abs |-> DDiv(d.abs, Two)]

\* Lines 464-481: the source rectangle cut from a frame.
CropOf(videoWidth, videoHeight) ==
    LET Wide(vw, vh, sWidth) ==
            [sWidth |-> sWidth, sHeight |-> vh,
             sx |-> HalfOf(Minus(vw, sWidth)), sy |-> Unsigned(Zero)]
        Tall(vw, vh, sHeight) ==
            [sWidth |-> vw, sHeight |-> sHeight,
             sx |-> Unsigned(Zero), sy |-> HalfOf(Minus(vh, sHeight))]
        Crop(vw, vh, videoAspectRatio) ==
            IF XCmp(videoAspectRatio, TargetAspectRatio) > 0
            THEN Wide(vw, vh, DMul(vh, TargetAspectRatio))
            ELSE Tall(vw, vh, DDiv(vw, TargetAspectRatio))
        Frame(vw, vh) == Crop(vw, vh, DDiv(vw, vh))
    IN  Frame(FromNat(videoWidth), FromNat(videoHeight))

\* Mutant of ScaleToOutput: the position of the preview is used as it is.
ScaleToOutputUnscaled(position, outputSize, previewSize) == position

\* Lines 497-501: a coordinate of the preview in the output,
\* position * (canvas size / mainRect size).
ScaleToOutput(position, outputSize, previewSize) ==
    DMul(position, DDiv(FromNat(outputSize), FromNat(previewSize)))

\* Lines 464-506: the numbers of one capturePhoto.
CaptureOf(v, scale, position) ==
    LET Taken(crop, canvasWidth, canvasHeight) ==
            LET baseBoardWidth == DMul(FromNat(canvasWidth), BoardWidthFraction)
                baseBoardHeight == DMul(FromNat(canvasHeight), BoardHeightFraction)
            IN  [taken |-> TRUE,
                 videoWidth |-> v.videoWidth, videoHeight |-> v.videoHeight,
                 sx |-> crop.sx, sy |-> crop.sy,
                 sWidth |-> crop.sWidth, sHeight |-> crop.sHeight,
                 canvasWidth |-> canvasWidth, canvasHeight |-> canvasHeight,
                 boardWidth |-> DMul(baseBoardWidth, scale),
                 boardHeight |-> DMul(baseBoardHeight, scale),
                 boardLeftX |-> ScaleToOutput(position.x, canvasWidth, MainWidth),
                 boardTopY |-> ScaleToOutput(position.y, canvasHeight, MainHeight),
                 scale |-> scale, position |-> position]
        Cropped(crop) ==
            Taken(crop, ToCanvasSize(crop.sWidth), ToCanvasSize(crop.sHeight))
    IN  Cropped(CropOf(v.videoWidth, v.videoHeight))

NoCapture ==
    [taken |-> FALSE, videoWidth |-> 0, videoHeight |-> 0,
     sx |-> Unsigned(Zero), sy |-> Unsigned(Zero), sWidth |-> Zero, sHeight |-> Zero,
     canvasWidth |-> 0, canvasHeight |-> 0, boardWidth |-> Zero, boardHeight |-> Zero,
     boardLeftX |-> Zero, boardTopY |-> Zero,
     scale |-> Zero, position |-> [x |-> Zero, y |-> Zero]]

\* Line 602.
uiDisabled == countdown # NoCountdown \/ isCapturing

\* Mutant of CaptureButtonShown: the button is rendered with the photo too.
CaptureButtonAlwaysShown == TRUE

\* Line 639: the capture button and the timer button exist while !imageSrc.
CaptureButtonShown == imageSrc = NoPhoto

\* The effect of lines 372-384, run after a render with the imageSrc src.
OverlayEffect(src) ==
    IF src = NoPhoto
    THEN invoked' = [by |-> "preview", imageSrc |-> src]
    ELSE UNCHANGED invoked

\* The effect of lines 386-406 (its timer of 0 ms elapsed), for the scale.
PositionEffect(scale) ==
    whiteboardPosition' = [x |-> Zero, y |-> FromNat(MainHeight - OverlayHeight(scale))]

\* capturePhoto (lines 456-511).
capturePhoto ==
    /\ invoked' = [by |-> "capture", imageSrc |-> imageSrc]
    /\ IF video.readyState >= 2
       THEN /\ capture' = CaptureOf(video, whiteboardScale, whiteboardPosition)
            /\ imageSrc' = Photo
       ELSE UNCHANGED <<capture, imageSrc>>

\* triggerCapture (lines 538-543); the timer of 100 ms is CapturingTimeout.
triggerCapture ==
    /\ isCapturing' = TRUE
    /\ capturePhoto

AppFrame == UNCHANGED <<fitVars, drawVars, listVars, restVars, variant, boardWidth, boardHeight,
                        texts, layout, textsToDraw>>

InitApp ==
    /\ imageSrc = NoPhoto
    /\ isTimerEnabled = FALSE
    /\ countdown = NoCountdown
    /\ isCapturing = FALSE
    /\ whiteboardScale = FromNat(1)
    /\ whiteboardPosition = [x |-> Zero, y |-> FromNat(MainHeight - OverlayHeight(FromNat(1)))]
    /\ \E f \in VideoFrames :
          video = [videoWidth |-> f[1], videoHeight |-> f[2], readyState |-> HaveNothing]
    /\ capture = NoCapture
    /\ invoked = [by |-> "preview", imageSrc |-> NoPhoto]
    /\ variant = "none"
    /\ boardWidth = 0
    /\ boardHeight = 0
    /\ texts = <<>>
    /\ layout = <<>>
    /\ textsToDraw = <<>>
    /\ whiteboardTexts = BoardTexts(<<>>, IsoDate)
    /\ FitIdle
    /\ DrawIdle
    /\ ListIdle
    /\ RestIdle

\* The camera delivers its first frame.
VideoLoaded ==
    /\ video.readyState = HaveNothing
    /\ video' = [video EXCEPT !.readyState = HaveEnoughData]
    /\ UNCHANGED <<imageSrc, isTimerEnabled, countdown, isCapturing, whiteboardScale,
                   whiteboardPosition, capture, invoked, whiteboardTexts>>
    /\ AppFrame

\* handleCapture (lines 561-567), by the capture button.
ClickCapture ==
    /\ CaptureButtonShown
    /\ ~uiDisabled
    /\ IF isTimerEnabled
       THEN /\ countdown' = TimerSeconds
            /\ UNCHANGED <<imageSrc, isCapturing, capture, invoked>>
       ELSE /\ triggerCapture
            /\ UNCHANGED countdown
    /\ UNCHANGED <<isTimerEnabled, whiteboardScale, whiteboardPosition, video,
                   whiteboardTexts>>
    /\ AppFrame

\* The timer button (lines 659-668).
ToggleTimer ==
    /\ imageSrc = NoPhoto
    /\ ~uiDisabled
    /\ isTimerEnabled' = ~isTimerEnabled
    /\ UNCHANGED <<imageSrc, countdown, isCapturing, whiteboardScale, whiteboardPosition,
                   video, capture, invoked, whiteboardTexts>>
    /\ AppFrame

\* The countdown effect (lines 546-559) with countdown > 0, its timer of one
\* second elapsed.
CountdownTick ==
    /\ countdown # NoCountdown
    /\ countdown > 0
    /\ countdown' = countdown - 1
    /\ UNCHANGED <<imageSrc, isTimerEnabled, isCapturing, whiteboardScale,
                   whiteboardPosition, video, capture, invoked, whiteboardTexts>>
    /\ AppFrame

\* The countdown effect with countdown = 0.
CountdownElapsed ==
    /\ countdown = 0
    /\ triggerCapture
    /\ countdown' = NoCountdown
    /\ UNCHANGED <<isTimerEnabled, whiteboardScale, whiteboardPosition, video,
                   whiteboardTexts>>
    /\ AppFrame

\* The timer of 100 ms of triggerCapture.
CapturingTimeout ==
    /\ isCapturing
    /\ isCapturing' = FALSE
    /\ UNCHANGED <<imageSrc, isTimerEnabled, countdown, whiteboardScale,
                   whiteboardPosition, video, capture, invoked, whiteboardTexts>>
    /\ AppFrame

\* retakePhoto (lines 569-571), by the button shown with the photo; the
\* overlay is mounted again, drawn and put in its place.
RetakePhoto ==
    /\ imageSrc # NoPhoto
    /\ imageSrc' = NoPhoto
    /\ OverlayEffect(imageSrc')
    /\ PositionEffect(whiteboardScale)
    /\ UNCHANGED <<isTimerEnabled, countdown, isCapturing, whiteboardScale, video,
                   capture, whiteboardTexts>>
    /\ AppFrame

\* The slider (lines 680-690).
SetScale(scale) ==
    /\ imageSrc = NoPhoto
    /\ scale # whiteboardScale
    /\ whiteboardScale' = scale
    /\ OverlayEffect(imageSrc)
    /\ PositionEffect(scale)
    /\ UNCHANGED <<imageSrc, isTimerEnabled, countdown, isCapturing, video, capture,
                   whiteboardTexts>>
    /\ AppFrame

\* handleTextChange of the grid input, shown while !imageSrc.
ChangeText(i, t) ==
    /\ imageSrc = NoPhoto
    /\ At(whiteboardTexts, i) # t
    /\ whiteboardTexts' = [whiteboardTexts EXCEPT ![i + 1] = t]
    /\ OverlayEffect(imageSrc)
    /\ UNCHANGED <<imageSrc, isTimerEnabled, countdown, isCapturing, whiteboardScale,
                   whiteboardPosition, video, capture>>
    /\ AppFrame

\* handleDragMove (lines 424-438): the overlay follows the pointer within
\* main.
DragTo(newX, newY) ==
    /\ imageSrc = NoPhoto
    /\ whiteboardPosition' =
          [x |-> FromNat(Max(0, MinOf(newX, MainWidth - OverlayWidth(whiteboardScale)))),
           y |-> FromNat(Max(0, MinOf(newY, MainHeight - OverlayHeight(whiteboardScale))))]
    /\ UNCHANGED <<imageSrc, isTimerEnabled, countdown, isCapturing, whiteboardScale,
                   video, capture, invoked, whiteboardTexts>>
    /\ AppFrame

NextApp ==
    \/ VideoLoaded
    \/ ClickCapture
    \/ ToggleTimer
    \/ CountdownTick
    \/ CountdownElapsed
    \/ CapturingTimeout
    \/ RetakePhoto
    \/ \E scale \in ScaleValues : SetScale(scale)
    \/ \E t \in ValueTexts : ChangeText(1, t)
    \/ \E p \in DragPoints : DragTo(p, p)

SpecApp == InitApp /\ [][NextApp]_vars

\* ===================================================== the saved lists
(***************************************************************************)
(* The legacy WhiteboardGridInput (ChalkboardInput.tsx) keeps a list of    *)
(* saved options per field and writes it to localStorage whenever it       *)
(* changes (lines 148-154).  One field is modelled.  The text of a file is *)
(* a sequence of characters; "LF" and "CR" are the line feed and the       *)
(* carriage return.                                                        *)
(***************************************************************************)
MaxFileLen == 2    \* the files imported have at most MaxFileLen characters

FileChars == {"a", " ", "LF", "CR"}
FileTexts == SeqsUpTo(FileChars, MaxFileLen)

\* the texts the user saves from a field with the add button
AddValues == {<<"a">>, <<"A">>, <<"b">>, <<" ">>, <<" ", "b">>}

\* the lists found in localStorage when the component is mounted
InitialLists == {<<>>, << <<"a">> >>, << <<"b">>, <<"a">> >>}

WhiteSpace == {" ", "CR", "LF"}

\* text.split(/\r?\n/), from the character i on; current is the line begun
RECURSIVE SplitLinesFrom(_, _, _)
SplitLinesFrom(filetext, i, current) ==
    IF i > Len(filetext) THEN <<current>>
    ELSE IF filetext[i] = "LF"
         THEN <<current>> \o SplitLinesFrom(filetext, i + 1, <<>>)
         ELSE IF filetext[i] = "CR" /\ i < Len(filetext) /\ filetext[i + 1] = "LF"
              THEN <<current>> \o SplitLinesFrom(filetext, i + 2, <<>>)
              ELSE SplitLinesFrom(filetext, i + 1, Append(current, filetext[i]))

\* s.trim()
RECURSIVE TrimString(_)
TrimString(s) ==
    IF s = <<>> THEN s
    ELSE IF Head(s) \in WhiteSpace THEN TrimString(Tail(s))
    ELSE IF s[Len(s)] \in WhiteSpace THEN TrimString(SubSeq(s, 1, Len(s) - 1))
    ELSE s

\* lines.filter(line => line.trim() !== '')
NonBlankLines(lines) ==
    LET HasText(line) == TrimString(line) # <<>>
    IN  SelectSeq(lines, HasText)

\* Array.from(new Set(lines)): the lines in the order of their first
\* occurrence
RECURSIVE UniqueFrom(_, _, _)
UniqueFrom(lines, i, seen) ==
    IF i > Len(lines) THEN seen
    ELSE IF \E k \in 1 .. Len(seen) : seen[k] = lines[i]
         THEN UniqueFrom(lines, i + 1, seen)
         ELSE UniqueFrom(lines, i + 1, Append(seen, lines[i]))

\* Lines 207-208.
UniqueLinesOf(filetext) == UniqueFrom(NonBlankLines(SplitLinesFrom(filetext, 1, <<>>)), 1, <<>>)

\* s.toLowerCase()
ToLowerCase(s) == [k \in 1 .. Len(s) |-> IF s[k] = "A" THEN "a" ELSE s[k]]

\* The effect of lines 148-154: the list is written to localStorage.
SaveEffect == stored' = savedOptions'

ListFrame == UNCHANGED <<fitVars, boardVars, drawVars, appVars, restVars>>

InitList ==
    /\ savedOptions \in InitialLists
    /\ stored = savedOptions
    /\ alerted = "none"
    /\ imported = [done |-> FALSE, before |-> <<>>, text |-> <<>>]
    /\ FitIdle
    /\ BoardIdle
    /\ DrawIdle
    /\ AppIdle
    /\ RestIdle

\* handleFileRead (lines 197-227) with reader.onload for a file of the text
\* filetext.
ImportFile(filetext) ==
    LET uniqueLines == UniqueLinesOf(filetext)
    IN  /\ savedOptions' = uniqueLines
        /\ alerted' = IF Len(uniqueLines) > 0 THEN "updated" ELSE "not updated"
        /\ imported' = [done |-> TRUE, before |-> savedOptions, text |-> filetext]
        /\ SaveEffect
        /\ ListFrame

\* handleFileRead with reader.onerror.
ImportFails ==
    /\ alerted' = "unreadable"
    /\ imported' = [done |-> FALSE, before |-> <<>>, text |-> <<>>]
    /\ UNCHANGED <<savedOptions, stored>>
    /\ ListFrame

\* handleAddItemToList (lines 240-275) for the field of the list.
AddItemToList(value) ==
    LET textToAdd == TrimString(value)
        isDuplicate == \E k \in 1 .. Len(savedOptions) :
                          ToLowerCase(savedOptions[k]) = ToLowerCase(textToAdd)
    IN  /\ IF textToAdd = <<>>
           THEN alerted' = "enter a text" /\ UNCHANGED savedOptions
           ELSE IF isDuplicate
                THEN alerted' = "already saved" /\ UNCHANGED savedOptions
                ELSE alerted' = "saved" /\ savedOptions' = <<textToAdd>> \o savedOptions
        /\ imported' = [done |-> FALSE, before |-> <<>>, text |-> <<>>]
        /\ SaveEffect
        /\ ListFrame

\* onDelete of the modal (line 280).
DeleteOption(k) ==
    /\ k \in 1 .. Len(savedOptions)
    /\ LET Kept(opt) == opt # savedOptions[k]
       IN  savedOptions' = SelectSeq(savedOptions, Kept)
    /\ imported' = [done |-> FALSE, before |-> <<>>, text |-> <<>>]
    /\ SaveEffect
    /\ UNCHANGED alerted
    /\ ListFrame

NextList ==
    \/ \E filetext \in FileTexts : ImportFile(filetext)
    \/ ImportFails
    \/ \E value \in AddValues : AddItemToList(value)
    \/ \E k \in 1 .. 3 : DeleteOption(k)

SpecList == InitList /\ [][NextList]_vars

\* ================================================== the stored options
(***************************************************************************)
(* getSavedOptions (ChalkboardInput.tsx, lines 111-129) reads a list of    *)
(* strings from localStorage.  What the key holds is a text of JSON        *)
(* tokens: the brackets, the comma, string literals ("qa" is the literal   *)
(* "a" with its quotes) and a number; JSON.parse is the parser of the      *)
(* grammar value ::= string | number | [ ] | [ value {, value} ].  An      *)
(* outcome is a return with its value or a throw.                          *)
(***************************************************************************)
MaxRawLen == 4     \* the texts found under the key have at most MaxRawLen tokens

JsonTokens == {"[", "]", ",", "qa", "qb", "1"}
StringLiterals == {"qa", "qb"}
RawItems == SeqsUpTo(JsonTokens, MaxRawLen)

\* the string a string literal denotes
StringOf(tok) == IF tok = "qa" THEN <<"a">> ELSE <<"b">>

DefaultOptions == {<<>>, << <<"d">> >>}

JsString(str) == [type |-> "string", value |-> str]
JsNumber == [type |-> "number", value |-> 1]
JsArray(elements) == [type |-> "array", value |-> elements]
SyntaxError == [ok |-> FALSE, value |-> <<>>, next |-> 0]

\* JSON.parse from the token i on: a value and the place after it, or a
\* syntax error.
RECURSIVE ParseValue(_, _)
RECURSIVE ParseElements(_, _, _)
ParseValue(raw, i) ==
    IF i > Len(raw) THEN SyntaxError
    ELSE IF raw[i] \in StringLiterals
         THEN [ok |-> TRUE, value |-> JsString(StringOf(raw[i])), next |-> i + 1]
    ELSE IF raw[i] = "1"
         THEN [ok |-> TRUE, value |-> JsNumber, next |-> i + 1]
    ELSE IF raw[i] = "["
         THEN IF i + 1 <= Len(raw) /\ raw[i + 1] = "]"
              THEN [ok |-> TRUE, value |-> JsArray(<<>>), next |-> i + 2]
              ELSE ParseElements(raw, i + 1, <<>>)
    ELSE SyntaxError

\* the elements of an array from the token i on, after those of elements
ParseElements(raw, i, elements) ==
    LET After(first) ==
            IF ~first.ok \/ first.next > Len(raw) THEN SyntaxError
            ELSE IF raw[first.next] = "]"
                 THEN [ok |-> TRUE, value |-> JsArray(Append(elements, first.value)),
                       next |-> first.next + 1]
            ELSE IF raw[first.next] = ","
                 THEN ParseElements(raw, first.next + 1, Append(elements, first.value))
            ELSE SyntaxError
    IN  After(ParseValue(raw, i))

Returns(value) == [kind |-> "return", value |-> value]
Throws == [kind |-> "throw", value |-> <<>>]

\* JSON.parse(text): the value of the whole text, or a SyntaxError thrown
JsonParse(raw) ==
    LET Whole(parsed) ==
            IF parsed.ok /\ parsed.next = Len(raw) + 1 THEN Returns(parsed.value)
            ELSE Throws
    IN  Whole(ParseValue(raw, 1))

\* Array.isArray(parsed) && parsed.every(item => typeof item === 'string')
IsStringArray(parsed) ==
    /\ parsed.type = "array"
    /\ \A k \in 1 .. Len(parsed.value) : parsed.value[k].type = "string"

\* the array of strings as the list of its strings
StringsOf(parsed) == [k \in 1 .. Len(parsed.value) |-> parsed.value[k].value]

\* Lines 112-122, the body of the try: its outcome for what getItem gave.
TryBody(items, defaultOptions) ==
    LET Validated(parsed) ==
            IF parsed.kind = "throw" THEN Throws
            ELSE IF IsStringArray(parsed.value) THEN Returns(StringsOf(parsed.value))
            ELSE Throws
    IN  IF items # Null /\ items # <<>>
        THEN Validated(JsonParse(items))
        ELSE Returns(defaultOptions)

\* Mutant of CatchBlock: the key is left as it is.
CatchBlockKeepsKey(held, defaultOptions) ==
    [outcome |-> Returns(defaultOptions), item |-> held]

\* Lines 123-127, the catch: the key is removed and the default returned.
CatchBlock(held, defaultOptions) ==
    [outcome |-> Returns(defaultOptions), item |-> Null]

\* getSavedOptions(key, defaultOptions) with the key holding held: the
\* outcome of the call and what the key holds after it.
getSavedOptions(held, defaultOptions) ==
    LET Handled(body) ==
            IF body.kind = "throw" THEN CatchBlock(held, defaultOptions)
            ELSE [outcome |-> body, item |-> held]
    IN  Handled(TryBody(held, defaultOptions))

StoreFrame == UNCHANGED <<fitVars, boardVars, drawVars, appVars, listVars, gridVars, workerVars,
                         clockVars>>

InitStore ==
    /\ item \in RawItems \cup {Null}
    /\ returned = [called |-> FALSE, held |-> Null, defaultOptions |-> <<>>,
                   outcome |-> Returns(<<>>)]
    /\ FitIdle
    /\ BoardIdle
    /\ DrawIdle
    /\ AppIdle
    /\ ListIdle
    /\ GridIdle
    /\ WorkerIdle
    /\ ClockIdle

\* A call getSavedOptions(key, defaultOptions).
CallGetSavedOptions(defaultOptions) ==
    LET Called(result) ==
            /\ returned' = [called |-> TRUE, held |-> item,
                            defaultOptions |-> defaultOptions,
                            outcome |-> result.outcome]
            /\ item' = result.item
    IN  /\ Called(getSavedOptions(item, defaultOptions))
        /\ StoreFrame

\* JSON.stringify(list) for a list of the strings "a" and "b"
RECURSIVE StringifyFrom(_, _)
StringifyFrom(list, k) ==
    IF k > Len(list) THEN <<"]">>
    ELSE (IF k > 1 THEN <<",">> ELSE <<>>)
         \o <<IF list[k] = <<"a">> THEN "qa" ELSE "qb">>
         \o StringifyFrom(list, k + 1)

JsonStringify(list) == <<"[">> \o StringifyFrom(list, 1)

\* the lists the component saves
SavedLists == {<<>>, << <<"a">> >>, << <<"b">>, <<"a">> >>}

\* The effect of lines 148-154: setItem(key, JSON.stringify(savedOptions)).
SaveOptions(list) ==
    /\ item' = JsonStringify(list)
    /\ returned' = [returned EXCEPT !.called = FALSE]
    /\ StoreFrame

NextStore ==
    \/ \E defaultOptions \in DefaultOptions : CallGetSavedOptions(defaultOptions)
    \/ \E list \in SavedLists : SaveOptions(list)

SpecStore == InitStore /\ [][NextStore]_vars

\* ================================================ the lists of the server
(***************************************************************************)
(* The current WhiteboardGridInput (part_001) keeps its lists on a mock    *)
(* server, the localStorage keys 'server-storage-<listId>', reached by the *)
(* api after MOCK_API_DELAY, and queues the changes made offline under the *)
(* key 'offline-action-queue'.  The lists 'field-1' (import, bulk delete)  *)
(* and 'field-3' (seeded with defaults) are modelled; the user works on    *)
(* the field of 'field-1', and 'field-3' changes by the actions queued in  *)
(* an earlier session.  A notification of a handler is held as its type,   *)
(* one of syncOfflineChanges as its message.  Every delay of the           *)
(* api is the same, so its timers fire in the order they were set: timers  *)
(* is that order, each entry naming the asynchronous function that waits.  *)
(* User events, online/offline events and the FileReader interleave freely *)
(* with the timers.  At most one syncOfflineChanges and one api call of a  *)
(* handler are in flight at a time.  The values stored are lists of        *)
(* strings written by the api itself, so the JSON texts are held as the    *)
(* lists they parse to.  Each queued action carries an id that the program *)
(* does not have, to tell two equal actions apart.                         *)
(***************************************************************************)
MaxClicks == 2    \* the clicks of the user on the buttons and the file input

Fields == {"field-1", "field-3"}

DEFAULT_OPTIONS_FIELD_3 ==
    << <<"U+5B9A", "U+671F", "U+70B9", "U+691C">>,
       <<"6", "U+30F6", "U+6708", "U+70B9", "U+691C">>,
       <<"U+5E74", "U+6B21", "U+70B9", "U+691C">>,
       <<"U+5B9A", "U+671F", "U+6E05", "U+6383">> >>

\* the texts of a field when SET is clicked
GridTexts == {<<"a">>, <<" ", "b">>, <<" ">>}

\* the fields whose SET and select buttons are clicked
GridIndices == {1}

\* the options deleted in the modal
GridItems == {<<"a">>, <<"b">>}

\* the texts of the files imported
GridFiles == {<<"b", "LF", "a">>, <<"a", "LF", "a">>, <<" ">>}

\* list.includes(x)
Includes(list, x) == \E k \in 1 .. Len(list) : list[k] = x

\* list.filter(i => i !== x)
Without(list, x) ==
    LET Kept(i) == i # x
    IN  SelectSeq(list, Kept)

\* api.getList (lines 163-180) at its timer
ApiGetList(storage, listId) == storage[listId]

\* api.addItem (lines 181-204) at the timer of its getList; writable is
\* whether localStorage.setItem succeeds
ApiAddItem(storage, listId, entry, writable) ==
    LET currentItems == ApiGetList(storage, listId)
        newList == <<entry>> \o currentItems
    IN  IF Includes(currentItems, entry)
        THEN [success |-> FALSE, message |-> "error", newList |-> <<>>,
              threw |-> FALSE, storage |-> storage]
        ELSE IF writable
             THEN [success |-> TRUE, message |-> "", newList |-> newList,
                   threw |-> FALSE, storage |-> [storage EXCEPT ![listId] = newList]]
             ELSE [success |-> FALSE, message |-> "error", newList |-> <<>>,
                   threw |-> TRUE, storage |-> storage]

\* api.deleteItem (lines 205-220) at the timer of its getList
ApiDeleteItem(storage, listId, itemToDelete, writable) ==
    LET currentItems == ApiGetList(storage, listId)
        newList == Without(currentItems, itemToDelete)
    IN  IF writable
        THEN [success |-> TRUE, message |-> "", newList |-> newList,
              threw |-> FALSE, storage |-> [storage EXCEPT ![listId] = newList]]
        ELSE [success |-> FALSE, message |-> "error", newList |-> <<>>,
              threw |-> TRUE, storage |-> storage]

\* api.replaceList (lines 221-238) at its timer
ApiReplaceList(storage, listId, newList, writable) ==
    IF writable
    THEN [success |-> TRUE, message |-> "", newList |-> newList,
          threw |-> FALSE, storage |-> [storage EXCEPT ![listId] = newList]]
    ELSE [success |-> FALSE, message |-> "error", newList |-> <<>>,
          threw |-> TRUE, storage |-> storage]

\* the offline actions (lines 243-246)
AddAction(listId, entry, id) ==
    [type |-> "add", listId |-> listId, item |-> entry, newList |-> <<>>, id |-> id]
DeleteAction(listId, entry, id) ==
    [type |-> "delete", listId |-> listId, item |-> entry, newList |-> <<>>, id |-> id]
ReplaceAction(listId, newList, id) ==
    [type |-> "replace", listId |-> listId, item |-> <<>>, newList |-> newList, id |-> id]

\* the call of the api that syncOfflineChanges makes for an action (lines
\* 332-342), at the timer that writes
ApiReplay(storage, action, writable) ==
    IF action.type = "add" THEN ApiAddItem(storage, action.listId, action.item, writable)
    ELSE IF action.type = "delete"
         THEN ApiDeleteItem(storage, action.listId, action.item, writable)
         ELSE ApiReplaceList(storage, action.listId, action.newList, writable)

\* the ids of the actions of a queue
IdsOf(queue) == {queue[k].id : k \in 1 .. Len(queue)}

NoRequest == [kind |-> "none", pc |-> "none", listId |-> "", item |-> <<>>,
              newList |-> <<>>, filetext |-> <<>>]
NoReading == [active |-> FALSE, filetext |-> <<>>, currentOptions |-> <<>>, isOnline |-> FALSE]
NoSync == [pc |-> "idle", queue |-> <<>>, next |-> 0, start |-> <<>>,
           threw |-> FALSE, touched |-> FALSE]
NoNote == [kind |-> "none"]

GridFrame == UNCHANGED <<fitVars, boardVars, drawVars, appVars, listVars, storeVars, workerVars,
                        clockVars>>

\* the lists of the server and the queue found when the component mounts
InitialStorages ==
    {[f \in Fields |-> IF f = "field-1" THEN one ELSE three] :
        one \in {<<>>, << <<"a">> >>}, three \in {<<>>, DEFAULT_OPTIONS_FIELD_3}}
InitialQueues ==
    {<<>>,
     <<AddAction("field-3", <<"a">>, 1)>>,
     <<AddAction("field-3", <<"a">>, 1), AddAction("field-3", <<"b">>, 2)>>}

\* The state syncOfflineChanges leaves when it starts with a queue that is
\* not empty (lines 323-334): the first call of the api has set its timer.
SyncStarted(queue, storage) ==
    [pc |-> "timer", queue |-> queue, next |-> 1, start |-> storage,
     threw |-> FALSE, touched |-> FALSE]

\* The component after its first render and its effects (lines 286-406):
\* the online effect has called syncOfflineChanges and fetchInitialData has
\* asked for the three lists.
InitGrid ==
    /\ serverStorage \in InitialStorages
    /\ offlineQueue \in InitialQueues
    /\ isOnline \in BOOLEAN
    /\ options = [f \in Fields |-> <<>>]
    /\ isLoading = TRUE
    /\ modal = "none"
    /\ reading = NoReading
    /\ request = NoRequest
    /\ load = "getList"
    /\ IF isOnline /\ offlineQueue # <<>>
       THEN /\ isSyncing = TRUE
            /\ notification = "syncing"
            /\ sync = SyncStarted(offlineQueue, serverStorage)
            /\ timers = <<"sync", "load">>
       ELSE /\ isSyncing = FALSE
            /\ notification = ""
            /\ sync = NoSync
            /\ timers = <<"load">>
    /\ audit = [nextId |-> Len(offlineQueue) + 1, clicks |-> 0, replayed |-> {}, lost |-> {},
                note |-> NoNote]
    /\ FitIdle
    /\ BoardIdle
    /\ DrawIdle
    /\ AppIdle
    /\ ListIdle
    /\ StoreIdle
    /\ WorkerIdle
    /\ ClockIdle

\* every action but the one that makes a note forgets the note
Forget == audit' = [audit EXCEPT !.note = NoNote]

\* a click of the user, counted, with the note forgotten
Click ==
    /\ audit.clicks < MaxClicks
    /\ audit' = [audit EXCEPT !.clicks = @ + 1, !.note = NoNote]

isUIBlocked == isLoading \/ isSyncing

\* the list of the field with the index index (lines 436-450)
ListIdOf(index) == IF index = 1 THEN "field-1" ELSE "field-3"

\* offlineManager.addToQueue (lines 258-262) in the handler of a click
AddToQueue(action) ==
    /\ audit.clicks < MaxClicks
    /\ offlineQueue' = Append(offlineQueue, action)
    /\ audit' = [audit EXCEPT !.nextId = @ + 1, !.clicks = @ + 1, !.note = NoNote]

\* fetchInitialData (lines 382-404) at the timer it waits for: the three
\* lists read, or the defaults written to an empty field-3
LoadTimer ==
    /\ timers # <<>>
    /\ Head(timers) = "load"
    /\ IF load = "getList"
       THEN LET list1 == ApiGetList(serverStorage, "field-1")
                list3 == ApiGetList(serverStorage, "field-3")
            IN  IF Len(list3) > 0
                THEN /\ options' = [options EXCEPT !["field-1"] = list1, !["field-3"] = list3]
                     /\ isLoading' = FALSE
                     /\ load' = "done"
                     /\ timers' = Tail(timers)
                     /\ UNCHANGED serverStorage
                ELSE /\ options' = [options EXCEPT !["field-1"] = list1]
                     /\ load' = "replaceList"
                     /\ timers' = Append(Tail(timers), "load")
                     /\ UNCHANGED <<serverStorage, isLoading>>
       ELSE \E writable \in BOOLEAN :
            /\ serverStorage' =
                   ApiReplaceList(serverStorage, "field-3", DEFAULT_OPTIONS_FIELD_3, writable).storage
            /\ options' = [options EXCEPT !["field-3"] = DEFAULT_OPTIONS_FIELD_3]
            /\ isLoading' = FALSE
            /\ load' = "done"
            /\ timers' = Tail(timers)
    /\ Forget
    /\ UNCHANGED <<offlineQueue, isOnline, isSyncing, modal, notification, sync, reading, request>>
    /\ GridFrame

\* what syncOfflineChanges does once the call for the action of the index
\* sync.next has resolved with result (lines 331-345): the next call, or
\* clearQueue and the notification of the end, then the lists asked for
SyncResumes(result) ==
    LET replayed == audit.replayed \cup {sync.queue[sync.next].id}
        threw == sync.threw \/ result.threw
    IN  /\ serverStorage' = result.storage
        /\ IF sync.next < Len(sync.queue)
           THEN /\ sync' = [sync EXCEPT !.pc = "timer", !.next = @ + 1, !.threw = threw]
                /\ audit' = [audit EXCEPT !.replayed = replayed, !.note = NoNote]
                /\ UNCHANGED <<offlineQueue, notification>>
           ELSE /\ offlineQueue' = <<>>
                /\ notification' = "sync completed"
                /\ sync' = [sync EXCEPT !.pc = "reload", !.threw = threw]
                /\ audit' = [audit EXCEPT
                       !.replayed = replayed,
                       !.lost = @ \cup (IdsOf(offlineQueue) \ replayed),
                       !.note = [kind |-> "sync", start |-> sync.start, queue |-> sync.queue,
                                 stored |-> result.storage, threw |-> threw,
                                 touched |-> sync.touched]]
        /\ timers' = Append(Tail(timers), "sync")
        /\ UNCHANGED <<options, isSyncing>>

\* the steps of syncOfflineChanges once started (lines 330-360), at the
\* timer it waits for
SyncTimer ==
    /\ timers # <<>>
    /\ Head(timers) = "sync"
    /\ IF sync.pc = "reload"
       THEN /\ options' = [f \in Fields |-> ApiGetList(serverStorage, f)]
            /\ isSyncing' = FALSE
            /\ sync' = NoSync
            /\ timers' = Tail(timers)
            /\ Forget
            /\ UNCHANGED <<serverStorage, offlineQueue, notification>>
       ELSE IF sync.pc = "timer" /\ sync.queue[sync.next].type # "replace"
            THEN /\ sync' = [sync EXCEPT !.pc = "getList"]
                 /\ timers' = Append(Tail(timers), "sync")
                 /\ Forget
                 /\ UNCHANGED <<serverStorage, offlineQueue, notification, options, isSyncing>>
            ELSE \E writable \in BOOLEAN :
                     SyncResumes(ApiReplay(serverStorage, sync.queue[sync.next], writable))
    /\ UNCHANGED <<isOnline, isLoading, modal, load, reading, request>>
    /\ GridFrame

\* what a handler does once its call of the api has resolved with response
\* (lines 467-478, 555-567, 621-633, 651-662)
HandlerResumes(response) ==
    /\ serverStorage' = response.storage
    /\ options' = IF response.success
                  THEN [options EXCEPT ![request.listId] = response.newList]
                  ELSE options
    /\ notification' = IF response.success THEN "success" ELSE "error"
    /\ isLoading' = FALSE
    /\ modal' = IF request.kind = "clear" /\ modal = "confirm" THEN "none" ELSE modal
    /\ sync' = IF sync.pc = "idle" THEN sync ELSE [sync EXCEPT !.touched = TRUE]
    /\ audit' = [audit EXCEPT !.note =
                    IF request.kind = "replace" /\ response.success
                    THEN [kind |-> "import", before |-> options[request.listId],
                          filetext |-> request.filetext, after |-> response.newList]
                    ELSE NoNote]
    /\ request' = NoRequest
    /\ timers' = Tail(timers)

\* the call of the api of a handler, at the timer it waits for
RequestTimer ==
    /\ timers # <<>>
    /\ Head(timers) = "request"
    /\ IF request.pc = "timer" /\ request.kind \in {"add", "delete"}
       THEN /\ request' = [request EXCEPT !.pc = "getList"]
            /\ timers' = Append(Tail(timers), "request")
            /\ Forget
            /\ UNCHANGED <<serverStorage, options, notification, isLoading, modal, sync>>
       ELSE \E writable \in BOOLEAN :
            IF request.kind = "add"
            THEN HandlerResumes(ApiAddItem(serverStorage, request.listId, request.item, writable))
            ELSE IF request.kind = "delete"
            THEN HandlerResumes(ApiDeleteItem(serverStorage, request.listId, request.item, writable))
            ELSE HandlerResumes(ApiReplaceList(serverStorage, request.listId, request.newList, writable))
    /\ UNCHANGED <<offlineQueue, isOnline, isSyncing, load, reading>>
    /\ GridFrame

\* handleSetClick (lines 425-479) for the field of the index index holding
\* value
SetClick(index, value) ==
    LET textToSave == TrimString(value)
        listId == ListIdOf(index)
        currentOptions == options[listId]
    IN  /\ ~isUIBlocked
        /\ modal = "none"
        /\ IF textToSave = <<>>
           THEN /\ notification' = "error"
                /\ Click
                /\ UNCHANGED <<options, offlineQueue, isLoading, request, timers>>
           ELSE IF Includes(currentOptions, textToSave)
           THEN /\ notification' = "error"
                /\ Click
                /\ UNCHANGED <<options, offlineQueue, isLoading, request, timers>>
           ELSE IF ~isOnline
           THEN /\ options' = [options EXCEPT ![listId] = <<textToSave>> \o @]
                /\ AddToQueue(AddAction(listId, textToSave, audit.nextId))
                /\ notification' = "success"
                /\ UNCHANGED <<isLoading, request, timers>>
           ELSE /\ request = NoRequest
                /\ isLoading' = TRUE
                /\ request' = [NoRequest EXCEPT !.kind = "add", !.pc = "timer",
                                                !.listId = listId, !.item = textToSave]
                /\ timers' = Append(timers, "request")
                /\ Click
                /\ UNCHANGED <<options, offlineQueue, notification>>
        /\ UNCHANGED <<serverStorage, isOnline, isSyncing, modal, sync, load, reading>>
        /\ GridFrame

\* handleFileRead (lines 510-579) for 'field-1' when a file of the text
\* filetext is chosen: the reader starts, its onload closed over the list
\* and the isOnline of this render
ChooseFile(filetext) ==
    /\ ~isUIBlocked
    /\ modal = "none"
    /\ ~reading.active
    /\ reading' = [active |-> TRUE, filetext |-> filetext,
                   currentOptions |-> options["field-1"], isOnline |-> isOnline]
    /\ Click
    /\ UNCHANGED <<serverStorage, offlineQueue, options, isOnline, isLoading, isSyncing,
                   modal, notification, sync, load, request, timers>>
    /\ GridFrame

NewItemsUnfiltered(linesFromFile, currentOptions) == linesFromFile

\* linesFromFile.filter(line => !currentOptions.includes(line)) (line 534)
NewItems(linesFromFile, currentOptions) ==
    LET IsNew(line) == ~Includes(currentOptions, line)
    IN  SelectSeq(linesFromFile, IsNew)

\* reader.onload (lines 519-568)
ReaderLoad ==
    LET linesFromFile == UniqueLinesOf(reading.filetext)
        currentOptions == reading.currentOptions
        newItems == NewItems(linesFromFile, currentOptions)
        mergedList == newItems \o currentOptions
    IN  /\ reading.active
        /\ reading' = NoReading
        /\ IF Len(linesFromFile) = 0
           THEN /\ notification' = "error"
                /\ isLoading' = FALSE
                /\ Forget
                /\ UNCHANGED <<options, offlineQueue, request, timers>>
           ELSE IF Len(newItems) = 0
           THEN /\ notification' = "success"
                /\ isLoading' = FALSE
                /\ Forget
                /\ UNCHANGED <<options, offlineQueue, request, timers>>
           ELSE IF ~reading.isOnline
           THEN
                /\ options' = [options EXCEPT !["field-1"] = mergedList]
                /\ offlineQueue' = Append(offlineQueue,
                                          ReplaceAction("field-1", mergedList, audit.nextId))
                /\ audit' = [audit EXCEPT !.nextId = @ + 1, !.note =
                                [kind |-> "import", before |-> options["field-1"],
                                 filetext |-> reading.filetext, after |-> mergedList]]
                /\ notification' = "success"
                /\ isLoading' = FALSE
                /\ UNCHANGED <<request, timers>>
           ELSE /\ request = NoRequest
                /\ isLoading' = TRUE
                /\ request' = [NoRequest EXCEPT !.kind = "replace", !.pc = "timer",
                                                !.listId = "field-1", !.newList = mergedList,
                                                !.filetext = reading.filetext]
                /\ timers' = Append(timers, "request")
                /\ Forget
                /\ UNCHANGED <<options, offlineQueue, notification>>
        /\ UNCHANGED <<serverStorage, isOnline, isSyncing, modal, sync, load>>
        /\ GridFrame

\* reader.onerror (lines 569-572)
ReaderError ==
    /\ reading.active
    /\ reading' = NoReading
    /\ notification' = "error"
    /\ Forget
    /\ UNCHANGED <<serverStorage, offlineQueue, options, isOnline, isLoading, isSyncing,
                   modal, sync, load, request, timers>>
    /\ GridFrame

\* handleSelectClick (lines 420-423): the modal of the field opens
SelectClick(index) ==
    /\ ~isUIBlocked
    /\ modal = "none"
    /\ modal' = ListIdOf(index)
    /\ Click
    /\ UNCHANGED <<serverStorage, offlineQueue, options, isOnline, isLoading, isSyncing,
                   notification, sync, load, reading, request, timers>>
    /\ GridFrame

\* handleModalClose (lines 588-590)
ModalClose ==
    /\ modal \in Fields
    /\ modal' = "none"
    /\ Click
    /\ UNCHANGED <<serverStorage, offlineQueue, options, isOnline, isLoading, isSyncing,
                   notification, sync, load, reading, request, timers>>
    /\ GridFrame

\* the delete handler of the open modal (lines 638-663) for its option
\* optionToDelete
ModalDelete(optionToDelete) ==
    /\ modal \in Fields
    /\ Includes(options[modal], optionToDelete)
    /\ LET listId == modal
       IN  IF ~isOnline
           THEN /\ options' = [options EXCEPT ![listId] = Without(@, optionToDelete)]
                /\ AddToQueue(DeleteAction(listId, optionToDelete, audit.nextId))
                /\ notification' = "success"
                /\ UNCHANGED <<isLoading, request, timers>>
           ELSE /\ request = NoRequest
                /\ isLoading' = TRUE
                /\ request' = [NoRequest EXCEPT !.kind = "delete", !.pc = "timer",
                                                !.listId = listId, !.item = optionToDelete]
                /\ timers' = Append(timers, "request")
                /\ Click
                /\ UNCHANGED <<options, offlineQueue, notification>>
    /\ modal' = "none"
    /\ UNCHANGED <<serverStorage, isOnline, isSyncing, sync, load, reading>>
    /\ GridFrame

\* handleBulkDeleteClick (lines 592-598) for 'field-1'
BulkDeleteClick ==
    /\ ~isUIBlocked
    /\ Len(options["field-1"]) # 0
    /\ modal = "none"
    /\ modal' = "confirm"
    /\ Click
    /\ UNCHANGED <<serverStorage, offlineQueue, options, isOnline, isLoading, isSyncing,
                   notification, sync, load, reading, request, timers>>
    /\ GridFrame

\* handleCancelDelete (lines 600-602)
CancelDelete ==
    /\ modal = "confirm"
    /\ modal' = "none"
    /\ Click
    /\ UNCHANGED <<serverStorage, offlineQueue, options, isOnline, isLoading, isSyncing,
                   notification, sync, load, reading, request, timers>>
    /\ GridFrame

\* handleConfirmDelete (lines 604-634)
ConfirmDelete ==
    /\ modal = "confirm"
    /\ ~isLoading
    /\ IF ~isOnline
       THEN /\ options' = [options EXCEPT !["field-1"] = <<>>]
            /\ AddToQueue(ReplaceAction("field-1", <<>>, audit.nextId))
            /\ notification' = "success"
            /\ modal' = "none"
            /\ UNCHANGED <<isLoading, request, timers>>
       ELSE /\ request = NoRequest
            /\ isLoading' = TRUE
            /\ request' = [NoRequest EXCEPT !.kind = "clear", !.pc = "timer",
                                            !.listId = "field-1"]
            /\ timers' = Append(timers, "request")
            /\ Click
            /\ UNCHANGED <<options, offlineQueue, notification, modal>>
    /\ UNCHANGED <<serverStorage, isOnline, isSyncing, sync, load, reading>>
    /\ GridFrame

\* handleOffline (line 366)
GoOffline ==
    /\ isOnline
    /\ isOnline' = FALSE
    /\ Forget
    /\ UNCHANGED <<serverStorage, offlineQueue, options, isLoading, isSyncing, modal,
                   notification, sync, load, reading, request, timers>>
    /\ GridFrame

\* handleOnline (line 365) and the effect of isOnline (lines 375-379), which
\* calls syncOfflineChanges (lines 322-329)
GoOnline ==
    /\ ~isOnline
    /\ sync.pc = "idle"
    /\ isOnline' = TRUE
    /\ IF Len(offlineQueue) = 0
       THEN UNCHANGED <<isSyncing, notification, sync, timers>>
       ELSE /\ isSyncing' = TRUE
            /\ notification' = "syncing"
            /\ sync' = SyncStarted(offlineQueue, serverStorage)
            /\ timers' = Append(timers, "sync")
    /\ Forget
    /\ UNCHANGED <<serverStorage, offlineQueue, options, isLoading, modal, load, reading,
                   request>>
    /\ GridFrame

\* the timer of showNotification (lines 316-319)
NotificationTimeout ==
    /\ notification # ""
    /\ notification' = ""
    /\ Forget
    /\ UNCHANGED <<serverStorage, offlineQueue, options, isOnline, isLoading, isSyncing,
                   modal, sync, load, reading, request, timers>>
    /\ GridFrame

NextGrid ==
    \/ LoadTimer
    \/ SyncTimer
    \/ RequestTimer
    \/ \E index \in GridIndices, value \in GridTexts : SetClick(index, value)
    \/ \E filetext \in GridFiles : ChooseFile(filetext)
    \/ ReaderLoad
    \/ ReaderError
    \/ \E index \in GridIndices : SelectClick(index)
    \/ ModalClose
    \/ \E optionToDelete \in GridItems : ModalDelete(optionToDelete)
    \/ BulkDeleteClick
    \/ CancelDelete
    \/ ConfirmDelete
    \/ GoOffline
    \/ GoOnline
    \/ NotificationTimeout

SpecGrid == InitGrid /\ [][NextGrid]_vars

\* ==================================================== the service worker
(***************************************************************************)
(* The fetch listeners of the two service workers: the one of the legacy   *)
(* application (ChalkboardInput.tsx, lines 505-542) and the one of the     *)
(* current application (part_000, lines 45-85).  A request is its method,  *)
(* its mode and its URL; a response is its status, its type and its body.  *)
(* The cache is searched by URL.  cache.put is not awaited by the          *)
(* listener: it completes later, in any order.                             *)
(***************************************************************************)
MaxPuts == 1    \* the cache.put calls in flight at a time

IndexHtml == "./index.html"
Urls == {IndexHtml, "./other"}
Methods == {"GET", "POST"}
Modes == {"navigate", "cors"}
Requests == [method : Methods, mode : Modes, url : Urls]

\* the responses of the network: an opaque response has the status 0
Responses ==
    [status : {200, 404}, type : {"basic", "cors"}, body : {"v1", "v2"}]
        \cup [status : {0}, type : {"opaque"}, body : {"v1"}]

\* undefined, where a response is expected
NoResponse == [status |-> 0, type |-> "undefined", body |-> ""]
\* the promise of fetch(event.request) rejects
Rejected == [status |-> 0, type |-> "rejected", body |-> ""]

\* what a listener does for an event: whether it calls event.respondWith,
\* what the promise given to it resolves to, whether fetch is called, and
\* whether cache.put is called with the response of the network
NotIntercepted == [intercepted |-> FALSE, response |-> NoResponse, contacted |-> FALSE, put |-> FALSE]
FromCache(response) == [intercepted |-> TRUE, response |-> response, contacted |-> FALSE, put |-> FALSE]
FromNetwork(response, put) == [intercepted |-> TRUE, response |-> response, contacted |-> TRUE, put |-> put]

\* the test of lines 66-70 of part_000 (line 521 of ChalkboardInput.tsx)
IsValidResponse(networkResponse) ==
    ~(networkResponse.status # 200
        \/ ~(networkResponse.type = "basic" \/ networkResponse.type = "cors"))

\* cache.match(event.request), caches.match(url)
CacheMatch(c, url) == c[url]

\* the listener of the legacy worker (ChalkboardInput.tsx, lines 505-542)
LegacyFetchListener(eventRequest, c, networkResponse) ==
    IF eventRequest.method # "GET" THEN NotIntercepted
    ELSE IF CacheMatch(c, eventRequest.url) # NoResponse THEN FromCache(CacheMatch(c, eventRequest.url))
    ELSE IF networkResponse = Rejected THEN FromNetwork(NoResponse, FALSE)
    ELSE FromNetwork(networkResponse, IsValidResponse(networkResponse))

FetchListenerCachesAll(eventRequest, c, networkResponse) ==
    IF eventRequest.method # "GET" THEN NotIntercepted
    ELSE IF eventRequest.mode = "navigate"
    THEN IF CacheMatch(c, IndexHtml) # NoResponse THEN FromCache(CacheMatch(c, IndexHtml))
         ELSE FromNetwork(IF networkResponse = Rejected THEN NoResponse ELSE networkResponse,
                          FALSE)
    ELSE IF CacheMatch(c, eventRequest.url) # NoResponse THEN FromCache(CacheMatch(c, eventRequest.url))
    ELSE IF networkResponse = Rejected THEN FromNetwork(CacheMatch(c, IndexHtml), FALSE)
    ELSE FromNetwork(networkResponse, TRUE)

\* the listener of the current worker (part_000, lines 45-85)
FetchListener(eventRequest, c, networkResponse) ==
    IF eventRequest.method # "GET" THEN NotIntercepted
    ELSE IF eventRequest.mode = "navigate"
    THEN IF CacheMatch(c, IndexHtml) # NoResponse THEN FromCache(CacheMatch(c, IndexHtml))
         ELSE FromNetwork(IF networkResponse = Rejected THEN NoResponse ELSE networkResponse,
                          FALSE)
    ELSE IF CacheMatch(c, eventRequest.url) # NoResponse THEN FromCache(CacheMatch(c, eventRequest.url))
    ELSE IF networkResponse = Rejected THEN FromNetwork(CacheMatch(c, IndexHtml), FALSE)
    ELSE FromNetwork(networkResponse, IsValidResponse(networkResponse))

NoFetch == [request |-> [method |-> "", mode |-> "", url |-> ""], index |-> NoResponse,
            cached |-> NoResponse,
            networkResponse |-> NoResponse, result |-> NotIntercepted]

WorkerFrame == UNCHANGED <<fitVars, boardVars, drawVars, appVars, listVars, storeVars, gridVars,
                          clockVars>>

\* the caches when the worker controls the page: what 'install' stored
\* (lines 14-27), or nothing left of it
InitialCaches ==
    {[u \in Urls |-> NoResponse],
     [u \in Urls |-> IF u = IndexHtml THEN [status |-> 200, type |-> "basic", body |-> "v1"]
                     ELSE NoResponse]}

InitWorker ==
    /\ worker \in {"legacy", "current"}
    /\ cache \in InitialCaches
    /\ pending = {}
    /\ fetched = NoFetch
    /\ FitIdle
    /\ BoardIdle
    /\ DrawIdle
    /\ AppIdle
    /\ ListIdle
    /\ StoreIdle
    /\ GridIdle
    /\ ClockIdle

\* A fetch event for eventRequest; networkResponse is what fetch(event.request)
\* gives if the listener calls it.
FetchEvent(eventRequest, networkResponse) ==
    LET result == IF worker = "legacy"
                  THEN LegacyFetchListener(eventRequest, cache, networkResponse)
                  ELSE FetchListener(eventRequest, cache, networkResponse)
    IN  /\ result.put => Cardinality(pending) < MaxPuts
        /\ fetched' = [request |-> eventRequest,
                       index |-> CacheMatch(cache, IndexHtml),
                       cached |-> CacheMatch(cache, eventRequest.url),
                       networkResponse |-> IF result.contacted THEN networkResponse
                                           ELSE NoResponse,
                       result |-> result]
        /\ pending' = IF result.put THEN pending \cup {<<eventRequest.url, networkResponse>>}
                      ELSE pending
        /\ UNCHANGED <<worker, cache>>
        /\ WorkerFrame

\* A cache.put(event.request, responseToCache) completes.
PutDone ==
    \E p \in pending :
        /\ cache' = [cache EXCEPT ![p[1]] = p[2]]
        /\ pending' = pending \ {p}
        /\ UNCHANGED <<worker, fetched>>
        /\ WorkerFrame

NextWorker ==
    \/ \E eventRequest \in Requests, networkResponse \in Responses \cup {Rejected} :
           FetchEvent(eventRequest, networkResponse)
    \/ PutDone

SpecWorker == InitWorker /\ [][NextWorker]_vars

\* ========================================================= the self-timer
(***************************************************************************)
(* The countdown of the current App (part_000, lines 538-567) and of the   *)
(* legacy App (part_001, lines 1111-1141).  A timer of the countdown       *)
(* effect is its id and the countdown of the render that set it.  React    *)
(* runs the effects of a render before it handles the next event, so the   *)
(* setting of the timer belongs to the step that changes the countdown,    *)
(* and while the countdown is 0 nothing runs before the effect that        *)
(* captures.  The capture routine is capturePhoto by way of triggerCapture *)
(* in the current App and performCapture in the legacy App; it is held as  *)
(* the number of its invocations and the photo it may leave.               *)
(***************************************************************************)
MaxRestarts == 2    \* the changes of the capture routine during one countdown

Apps == {"current", "legacy"}

ClearTimeoutNoop(pendingTimers, id) == pendingTimers

\* clearTimeout(id)
ClearTimeout(pendingTimers, id) == {t \in pendingTimers : t.id # id}

\* the countdown effect for the countdown value (part_000 lines 546-559,
\* part_001 lines 1111-1120) when value > 0: a timer of one second is set
TimerSet(pendingTimers, value) ==
    /\ timeouts' = pendingTimers \cup {[id |-> nextTimer + 1, value |-> value]}
    /\ timerRef' = nextTimer + 1
    /\ nextTimer' = nextTimer + 1

ClockFrame ==
    /\ UNCHANGED <<whiteboardScale, whiteboardPosition, video, capture, invoked>>
    /\ UNCHANGED <<fitVars, boardVars, drawVars, listVars, storeVars, gridVars, workerVars>>

InitClock ==
    /\ app \in Apps
    /\ imageSrc = NoPhoto
    /\ isTimerEnabled \in BOOLEAN
    /\ countdown = NoCountdown
    /\ isCapturing = FALSE
    /\ timeouts = {}
    /\ timerRef = 0
    /\ nextTimer = 0
    /\ taken = <<>>
    /\ captures = 0
    /\ restarts = 0
    /\ cancelled = FALSE
    /\ whiteboardScale = 0
    /\ whiteboardPosition = <<>>
    /\ video = <<>>
    /\ capture = <<>>
    /\ invoked = <<>>
    /\ FitIdle
    /\ BoardIdle
    /\ DrawIdle
    /\ ListIdle
    /\ StoreIdle
    /\ GridIdle
    /\ WorkerIdle

\* the capture routine is invoked: it leaves a photo, or nothing when the
\* video is not ready; the current App shows the flash (lines 538-543)
CaptureInvoked ==
    /\ captures' = captures + 1
    /\ imageSrc' \in {NoPhoto, Photo}
    /\ isCapturing' = (app = "current")

\* handleCapture (part_000 lines 561-567), capturePhoto (part_001 lines
\* 1128-1134): the capture button is pressed
PressCapture ==
    /\ imageSrc = NoPhoto
    /\ countdown = NoCountdown
    /\ ~isCapturing
    /\ cancelled' = FALSE
    /\ restarts' = 0
    /\ IF isTimerEnabled
       THEN /\ countdown' = TimerSeconds
            /\ taken' = <<TimerSeconds>>
            /\ captures' = 0
            /\ timeouts' = {[id |-> 1, value |-> TimerSeconds]}
            /\ timerRef' = 1
            /\ nextTimer' = 1
            /\ UNCHANGED <<imageSrc, isCapturing>>
       ELSE /\ taken' = <<>>
            /\ captures' = 1
            /\ imageSrc' \in {NoPhoto, Photo}
            /\ isCapturing' = (app = "current")
            /\ UNCHANGED <<countdown, timeouts, timerRef, nextTimer>>
    /\ UNCHANGED <<app, isTimerEnabled>>
    /\ ClockFrame

\* A timer of the countdown effect fires: setCountdown(countdown - 1) with
\* the countdown of its render, then the cleanup of the effect and the effect
\* of the new render when the state has changed.
TimerFires ==
    \E t \in timeouts :
        LET value == t.value - 1
            rest == timeouts \ {t}
        IN  /\ IF value = countdown
               THEN /\ timeouts' = rest
                    /\ UNCHANGED <<countdown, taken, timerRef, nextTimer>>
               ELSE /\ countdown' = value
                    /\ taken' = Append(taken, value)
                    /\ IF value > 0
                       THEN TimerSet(ClearTimeout(rest, timerRef), value)
                       ELSE /\ timeouts' = ClearTimeout(rest, timerRef)
                            /\ UNCHANGED <<timerRef, nextTimer>>
            /\ UNCHANGED <<app, imageSrc, isTimerEnabled, isCapturing, captures, restarts,
                           cancelled>>
            /\ ClockFrame

\* The countdown effect with countdown = 0 (part_000 lines 555-558, part_001
\* lines 1116-1119): the capture routine is invoked and the countdown ends.
CountdownZero ==
    /\ countdown = 0
    /\ CaptureInvoked
    /\ countdown' = NoCountdown
    /\ timeouts' = ClearTimeout(timeouts, timerRef)
    /\ UNCHANGED <<app, isTimerEnabled, timerRef, nextTimer, taken, restarts, cancelled>>
    /\ ClockFrame

\* The texts, the scale or the position change during the countdown of the
\* current App: capturePhoto and triggerCapture are new functions (part_000
\* lines 511 and 543), so the countdown effect is cleaned up and runs again
\* (line 559).
RoutineChanges ==
    /\ app = "current"
    /\ countdown # NoCountdown
    /\ countdown > 0
    /\ restarts < MaxRestarts
    /\ restarts' = restarts + 1
    /\ TimerSet(ClearTimeout(timeouts, timerRef), countdown)
    /\ UNCHANGED <<app, imageSrc, isTimerEnabled, countdown, isCapturing, taken, captures,
                   cancelled>>
    /\ ClockFrame

\* cancelCountdown (part_001 lines 1136-1141), the button shown during the
\* countdown of the legacy App
CancelCountdown ==
    /\ app = "legacy"
    /\ countdown # NoCountdown
    /\ countdown > 0
    /\ countdown' = NoCountdown
    /\ timeouts' = ClearTimeout(timeouts, timerRef)
    /\ cancelled' = TRUE
    /\ UNCHANGED <<app, imageSrc, isTimerEnabled, isCapturing, timerRef, nextTimer, taken,
                   captures, restarts>>
    /\ ClockFrame

\* the timer button (part_000 lines 659-668, part_001 line 1211)
PressTimer ==
    /\ imageSrc = NoPhoto
    /\ countdown = NoCountdown
    /\ ~isCapturing
    /\ isTimerEnabled' = ~isTimerEnabled
    /\ UNCHANGED <<app, imageSrc, countdown, isCapturing>>
    /\ UNCHANGED <<timeouts, timerRef, nextTimer, taken, captures, restarts, cancelled>>
    /\ ClockFrame

\* the timer of 100 ms of triggerCapture (part_000 line 542)
FlashEnds ==
    /\ isCapturing
    /\ isCapturing' = FALSE
    /\ UNCHANGED <<app, imageSrc, isTimerEnabled, countdown>>
    /\ UNCHANGED <<timeouts, timerRef, nextTimer, taken, captures, restarts, cancelled>>
    /\ ClockFrame

\* retakePhoto (part_000 lines 569-571, part_001 lines 1143-1145)
Retake ==
    /\ imageSrc # NoPhoto
    /\ imageSrc' = NoPhoto
    /\ UNCHANGED <<app, isTimerEnabled, countdown, isCapturing>>
    /\ UNCHANGED <<timeouts, timerRef, nextTimer, taken, captures, restarts, cancelled>>
    /\ ClockFrame

NextClock ==
    \/ PressCapture
    \/ TimerFires
    \/ CountdownZero
    \/ RoutineChanges
    \/ CancelCountdown
    \/ PressTimer
    \/ FlashEnds
    \/ Retake

\* The timers fire and the effects run.
SpecClock ==
    /\ InitClock
    /\ [][NextClock]_vars
    /\ WF_vars(TimerFires)
    /\ WF_vars(CountdownZero)

\* -------------------------------------------- properties of the compositor
Seven == FromNat(7)
Three == FromNat(3)
Five == FromNat(5)

\* | x - y | <= scale * 2^(-bits), exactly
Within(x, y, scale, bits) == XLe(XAbsDiff(x, y), XScale(scale, -bits))

\* C9 (as claimed, the equalities evaluated as the program would evaluate
\* them): for every board size the column widths sum to gridWidth and stand
\* in ratio 3:7, cellHeight * 5 = gridHeight, and the column separator is at
\* borderPadding + the first column width.
C9_GridGeometryExact ==
    variant = "canonical" =>
        /\ DAdd(layout.colWidths[1], layout.colWidths[2]) = layout.gridWidth
        /\ DMul(layout.colWidths[1], Seven) = DMul(layout.colWidths[2], Three)
        /\ DMul(layout.cellHeight, Five) = layout.gridHeight
        /\ layout.verticalLineX = DAdd(layout.borderPadding, layout.colWidths[1])

\* C9 (amended): for the board of 1000 x 800 the columns are 285 and 665 wide
\* in a grid 950 wide (ratio exactly 3:7) and the cells 150 high in a grid 750
\* high; for every board size the equalities hold up to the rounding of the
\* doubles: the column widths sum to gridWidth within 2^-52 of it, 7 times
\* the first and 3 times the second differ by at most 2^-50 of gridWidth, and
\* 5 * cellHeight is within 2^-53 of gridHeight; the column separator is at
\* x = borderPadding + the first column width.
C9_GridGeometry ==
    variant = "canonical" =>
        /\ Within(XAdd(layout.colWidths[1], layout.colWidths[2]),
                  layout.gridWidth, layout.gridWidth, 52)
        /\ Within(XMul(Seven, layout.colWidths[1]), XMul(Three, layout.colWidths[2]),
                  layout.gridWidth, 50)
        /\ Within(XMul(Five, layout.cellHeight), layout.gridHeight,
                  layout.gridHeight, 53)
        /\ layout.verticalLineX = DAdd(layout.borderPadding, layout.colWidths[1])
        /\ (boardWidth = 1000 /\ boardHeight = 800) =>
              /\ layout.borderPadding = FromNat(25)
              /\ layout.gridWidth = FromNat(950)
              /\ layout.gridHeight = FromNat(750)
              /\ layout.colWidths = <<FromNat(285), FromNat(665)>>
              /\ layout.cellHeight = FromNat(150)
              /\ layout.verticalLineX = FromNat(310)

C9_Witness ==
    /\ variant = "canonical" /\ boardWidth = 1000 /\ boardHeight = 800
    /\ layout.colWidths = <<FromNat(285), FromNat(665)>>
    /\ layout.cellHeight = FromNat(150)

\* the shape YYYY-MM-DD
IsoShaped(s) ==
    /\ Len(s) = 10
    /\ \A i \in {1, 2, 3, 4, 6, 7, 9, 10} : s[i] \in Digits
    /\ s[5] = "-" /\ s[8] = "-"

\* C10: the text of index 7 is drawn as YYYY<nen>MM<gatsu>DD<nichi> exactly
\* when it has the shape YYYY-MM-DD ("2024-03-05" gives "2024<nen>03<gatsu>05<nichi>");
\* any other text at index 7 ("not-a-date") and the text of every other
\* index, date-shaped or not, is drawn unchanged.  Both variants.
C10_DateReformatting ==
    variant \in Variants =>
        /\ \A i \in 0 .. 9 : i # 7 => At(textsToDraw, i) = At(texts, i)
        /\ LET d == At(texts, 7)
           IN  IF IsoShaped(d)
               THEN At(textsToDraw, 7) =
                       SubSeq(d, 1, 4) \o <<Nen>> \o SubSeq(d, 6, 7) \o <<Gatsu>>
                           \o SubSeq(d, 9, 10) \o <<Nichi>>
               ELSE At(textsToDraw, 7) = d
        /\ At(texts, 7) = IsoDate =>
              At(textsToDraw, 7) =
                  <<"2", "0", "2", "4", Nen, "0", "3", Gatsu, "0", "5", Nichi>>
        /\ At(texts, 7) = NotADate => At(textsToDraw, 7) = NotADate

C10_Witness ==
    /\ At(texts, 7) = IsoDate
    /\ At(textsToDraw, 7) = <<"2", "0", "2", "4", Nen, "0", "3", Gatsu, "0", "5", Nichi>>
    /\ At(texts, 1) = IsoDate
    /\ At(textsToDraw, 1) = IsoDate

\* C11: a call of drawWhiteboard leaves the caller's array as it was passed,
\* in every position: after any number of renders the stored text of index 7
\* is still the ISO string the user entered, while the text drawn for it is
\* the rewritten one.  Both variants.
C11_TextsNotMutated ==
    variant \in Variants =>
        /\ \A i \in 0 .. 9 : At(whiteboardTexts, i) = At(texts, i)
        /\ Len(whiteboardTexts) = Len(texts)
        /\ IsoShaped(At(texts, 7)) =>
              /\ IsoShaped(At(whiteboardTexts, 7))
              /\ At(textsToDraw, 7) # At(whiteboardTexts, 7)

C11_Witness ==
    /\ variant = "canonical"
    /\ boardWidth = 1000
    /\ At(whiteboardTexts, 7) = IsoDate
    /\ Nen \in {At(textsToDraw, 7)[k] : k \in 1 .. Len(At(textsToDraw, 7))}

\* ------------------------------------------------ properties of the drawing
\* the operations of a surface that draw text
TextOps(surface) == {k \in 1 .. Len(surface) : surface[k].op = "fillText"}

GridCoordinateOps == {"fillRect", "strokeRect", "moveTo", "lineTo"}

\* x = 2 * y, exactly
IsTwice(x, y) == x = XScale(y, 1)

\* C13: when boardWidth and boardHeight are doubled with the same texts, the
\* canonical geometry keeps its proportions: the ratio of the column widths
\* and the ratios borderPadding / boardWidth and textPadding / boardWidth are
\* the same numbers as before (3:7, 0.025 and 0.015 to the rounding of the
\* doubles), and every number of the geometry and every coordinate of the
\* board and of the grid in the operations issued is exactly twice what it
\* was.
C13_ScaleInvariance ==
    drawKind = "double" =>
        LET bw == FromNat(boardWidth)
            half == FromNat(boardWidth \div 2)
        IN  /\ XMul(layout.colWidths[1], prevLayout.colWidths[2])
                 = XMul(layout.colWidths[2], prevLayout.colWidths[1])
            /\ DDiv(layout.colWidths[1], layout.colWidths[2])
                 = DDiv(prevLayout.colWidths[1], prevLayout.colWidths[2])
            /\ DDiv(layout.borderPadding, bw) = DDiv(prevLayout.borderPadding, half)
            /\ DDiv(layout.textPadding, bw) = DDiv(prevLayout.textPadding, half)
            /\ Within(XMul(Seven, layout.colWidths[1]), XMul(Three, layout.colWidths[2]),
                      layout.gridWidth, 50)
            /\ Within(XMul(FromNat(40), layout.borderPadding), bw, bw, 50)
            /\ Within(XMul(FromNat(200), layout.textPadding), XMul(Three, bw), bw, 50)
            /\ IsTwice(layout.borderPadding, prevLayout.borderPadding)
            /\ IsTwice(layout.textPadding, prevLayout.textPadding)
            /\ IsTwice(layout.gridWidth, prevLayout.gridWidth)
            /\ IsTwice(layout.gridHeight, prevLayout.gridHeight)
            /\ IsTwice(layout.cellHeight, prevLayout.cellHeight)
            /\ IsTwice(layout.verticalLineX, prevLayout.verticalLineX)
            /\ \A c \in 1 .. NUM_COLS : IsTwice(layout.colWidths[c], prevLayout.colWidths[c])
            /\ \A k \in 1 .. Len(prevOps) :
                  prevOps[k].op \in GridCoordinateOps =>
                      /\ ops[k].op = prevOps[k].op
                      /\ Len(ops[k].args) = Len(prevOps[k].args)
                      /\ \A a \in 1 .. Len(prevOps[k].args) :
                            IsTwice(ops[k].args[a], prevOps[k].args[a])

C13_Witness ==
    /\ drawKind = "double"
    /\ boardWidth = 34 /\ boardHeight = 22
    /\ prevLayout.borderPadding = DMul(FromNat(17), BorderFraction)
    /\ IsTwice(layout.borderPadding, prevLayout.borderPadding)
    /\ \E k \in 1 .. Len(ops) :
          /\ ops[k].op = "lineTo"
          /\ ops[k].args[1] # Zero
          /\ IsTwice(ops[k].args[1], prevOps[k].args[1])

\* the operations a surface received for the cell i, in their order
CellSeq(surface, i) ==
    LET OfCell(o) == o.cell = i
    IN  SelectSeq(surface, OfCell)

\* C15: what is drawn for a cell (the fonts tried, the lines and the x and y
\* of each line) depends on the text of that cell and on the board only:
\* when the text of the cell edited is changed, be it to a text with an empty
\* or a truncated fit, the operations of every other cell are what they were.
C15_CellIndependence ==
    drawKind = "edit" =>
        \A i \in 0 .. NUM_ROWS * NUM_COLS - 1 :
            i # edited => CellSeq(ops, i) = CellSeq(prevOps, i)

\* the text of the cell 1 was changed to one that is truncated, and the cells
\* around it that draw text drew it as before
C15_Witness ==
    /\ drawKind = "edit"
    /\ edited = 1
    /\ boardWidth = 17
    /\ \E k \in TextOps(ops) :
          /\ ops[k].cell = 1
          /\ ops[k].text[Len(ops[k].text)] = Ellipsis
    /\ CellSeq(ops, 1) # CellSeq(prevOps, 1)
    /\ \A i \in {0, 2, 9} :
          /\ CellSeq(ops, i) = CellSeq(prevOps, i)
          /\ \E k \in 1 .. Len(CellSeq(ops, i)) : CellSeq(ops, i)[k].op = "fillText"

\* the positions of the operations of a name on a surface
OpsNamed(surface, name) == {k \in 1 .. Len(surface) : surface[k].op = name}

\* The setting of the context in effect at the operation k: the last
\* assignment of the name before k (the record of op "none" when there is
\* none).
InEffect(surface, k, name) ==
    LET before == {j \in OpsNamed(surface, name) : j < k}
    IN  IF before = {} THEN Op("none", <<>>, "", <<>>, -1)
        ELSE surface[CHOOSE j \in before : \A i \in before : i <= j]

\* the operations that paint
PaintOps(surface) ==
    OpsNamed(surface, "fillRect") \cup OpsNamed(surface, "strokeRect")
        \cup OpsNamed(surface, "stroke")

\* the segments of the path: a moveTo and the lineTo that follows it
Segments(surface) ==
    {<<surface[k].args, surface[k + 1].args>> : k \in OpsNamed(surface, "moveTo")}

\* C16: every call of drawWhiteboard issues, in this order, one white fill of
\* the whole board; two rectangles stroked 2px wide in #1a1a1a, the board and
\* the grid; one path stroked 1px wide in #cccccc that holds the 4 separators
\* of the rows at y = borderPadding + i * cellHeight (i = 1..4) and the one
\* separator of the columns, and nothing else; and the text of the cells
\* only after all of these.
C16_DrawOrder ==
    drawKind # "none" =>
        LET bw == FromNat(boardWidth)
            bh == FromNat(boardHeight)
            bp == layout.borderPadding
            fill == CHOOSE k \in OpsNamed(ops, "fillRect") : TRUE
            outer == CHOOSE k \in OpsNamed(ops, "strokeRect") :
                        \A j \in OpsNamed(ops, "strokeRect") : k <= j
            inner == CHOOSE k \in OpsNamed(ops, "strokeRect") :
                        \A j \in OpsNamed(ops, "strokeRect") : j <= k
            begin == CHOOSE k \in OpsNamed(ops, "beginPath") : TRUE
            stroke == CHOOSE k \in OpsNamed(ops, "stroke") : TRUE
            rows == {<< <<bp, DAdd(bp, DMul(FromNat(i), layout.cellHeight))>>,
                        <<DSub(bw, bp), DAdd(bp, DMul(FromNat(i), layout.cellHeight))>> >>
                        : i \in 1 .. NUM_ROWS - 1}
            column == << <<layout.verticalLineX, bp>>,
                         <<layout.verticalLineX, DAdd(bp, layout.gridHeight)>> >>
        IN  /\ Cardinality(OpsNamed(ops, "fillRect")) = 1
            /\ ops[fill].args = <<Zero, Zero, bw, bh>>
            /\ InEffect(ops, fill, "fillStyle").value = "white"
            /\ Cardinality(OpsNamed(ops, "strokeRect")) = 2
            /\ fill < outer /\ outer < inner
            /\ ops[outer].args = <<Zero, Zero, bw, bh>>
            /\ ops[inner].args = <<bp, bp, layout.gridWidth, layout.gridHeight>>
            /\ \A k \in {outer, inner} :
                  /\ InEffect(ops, k, "strokeStyle").value = "#1a1a1a"
                  /\ InEffect(ops, k, "lineWidth").args = <<FromNat(2)>>
            /\ Cardinality(OpsNamed(ops, "beginPath")) = 1
            /\ Cardinality(OpsNamed(ops, "stroke")) = 1
            /\ inner < begin /\ begin < stroke
            /\ InEffect(ops, stroke, "strokeStyle").value = "#cccccc"
            /\ InEffect(ops, stroke, "lineWidth").args = <<FromNat(1)>>
            /\ \A k \in OpsNamed(ops, "moveTo") :
                  begin < k /\ k + 1 < stroke /\ ops[k + 1].op = "lineTo"
            /\ Cardinality(OpsNamed(ops, "moveTo")) = NUM_ROWS
            /\ Cardinality(OpsNamed(ops, "lineTo")) = NUM_ROWS
            /\ Cardinality(rows) = NUM_ROWS - 1
            /\ Segments(ops) = rows \cup {column}
            /\ Cardinality(Segments(ops)) = NUM_ROWS
            /\ \A t \in TextOps(ops) : \A k \in PaintOps(ops) : k < t
            /\ \A t \in TextOps(ops) :
                  InEffect(ops, t, "fillStyle").value = "#1a1a1a"

C16_Witness ==
    /\ drawKind = "resize"
    /\ boardWidth = 33
    /\ Cardinality(TextOps(ops)) >= 7
    /\ \A t \in TextOps(ops) : \A k \in PaintOps(ops) : k < t
    /\ Cardinality(Segments(ops)) = NUM_ROWS

\* the fillText operations of the cell i, in their order
CellTextOps(i) ==
    LET IsText(o) == o.op = "fillText"
    IN  SelectSeq(CellSeq(ops, i), IsText)

\* the geometry of the cell i as lines 231-232 and 242-243 compute it, and
\* its fit
CellBox(i) ==
    LET row == i \div NUM_COLS
        col == i % NUM_COLS
        width == layout.colWidths[col + 1]
        pad == DMul(layout.textPadding, Two)
    IN  [width |-> width,
         leftX |-> DAdd(layout.borderPadding,
                        IF col = 0 THEN Zero ELSE layout.colWidths[1]),
         topY |-> DAdd(layout.borderPadding, DMul(FromNat(row), layout.cellHeight)),
         fit |-> getAdjustedFontAndLinesIn(BoardCtx(textsToDraw), At(textsToDraw, i),
                                           Minus(width, pad),
                                           Minus(layout.cellHeight, pad))]

AllCells == 0 .. NUM_ROWS * NUM_COLS - 1

\* The lines of every cell are the lines of its fit (none for an empty
\* fit), drawn centred on the horizontal midpoint of the cell, the first at
\* y = cellTopY + cellHeight/2 - n*lineHeight/2 + lineHeight/2 as the machine
\* evaluates it and each next one lineHeight lower; the y of line k is the
\* number of the formula up to the rounding of the doubles.
LinesPlacedByFormula ==
    \A i \in AllCells :
        LET box == CellBox(i)
            drawn == CellTextOps(i)
            n == Len(box.fit.lines)
            lineHeight == box.fit.lineHeight
            half == DDiv(layout.cellHeight, Two)
        IN  /\ [k \in 1 .. Len(drawn) |-> drawn[k].text] = box.fit.lines
            /\ n >= 1 =>
                  /\ \A k \in 1 .. n :
                        drawn[k].args[1] = DAdd(box.leftX, DDiv(box.width, Two))
                  /\ drawn[1].args[2] =
                        DAdd(DSub(DAdd(box.topY, half),
                                  DDiv(DMul(FromNat(n), lineHeight), Two)),
                             DDiv(lineHeight, Two))
                  /\ \A k \in 1 .. n - 1 :
                        drawn[k + 1].args[2] = DAdd(drawn[k].args[2], lineHeight)
                  /\ \A k \in 0 .. n - 1 :
                        Within(XAdd(XMul(Two, drawn[k + 1].args[2]),
                                    XMul(FromNat(n), lineHeight)),
                               XAdd(XAdd(XMul(Two, box.topY), layout.cellHeight),
                                    XMul(FromNat(2 * k + 1), lineHeight)),
                               FromNat(boardHeight), 48)

\* The block of lines of every cell, each line lineHeight high around its
\* y, lies between the top and the bottom of the content box of the cell.
BlockInsideVertically ==
    \A i \in AllCells :
        LET box == CellBox(i)
            drawn == CellTextOps(i)
            n == Len(drawn)
            halfLine == XScale(box.fit.lineHeight, -1)
        IN  n >= 1 =>
              /\ XLe(XAdd(XAdd(box.topY, layout.textPadding), halfLine),
                     drawn[1].args[2])
              /\ XLe(XAdd(XAdd(drawn[n].args[2], halfLine), layout.textPadding),
                     XAdd(box.topY, layout.cellHeight))

\* The font a fillText operation of a surface is drawn with.
FontAt(surface, k) == MathFloor(InEffect(surface, k, "font").args[1])

\* Every line of every cell, centred on the midpoint of the cell, is at most
\* as wide as the content box of the cell.
BlockInsideHorizontally ==
    \A t \in TextOps(ops) :
        LET box == CellBox(ops[t].cell)
            width == measureText(BoardCtx(textsToDraw), FontAt(ops, t), ops[t].text)
        IN  /\ InEffect(ops, t, "textAlign").value = "center"
            /\ XLe(XAdd(FromNat(width), XMul(Two, layout.textPadding)), box.width)

\* C17 (as claimed): for every cell whose fit has n >= 1 lines, line k is
\* drawn at the horizontal midpoint of the cell and at
\* y = cellTopY + cellHeight/2 - n*lineHeight/2 + lineHeight/2 + k*lineHeight,
\* and the block of lines lies inside the content box of the cell (the cell
\* shrunk by textPadding on each side); a cell with an empty fit gets no
\* text.
C17_CentredInContentBox ==
    drawKind # "none" =>
        /\ LinesPlacedByFormula
        /\ BlockInsideVertically
        /\ BlockInsideHorizontally

\* ---------------------------------------------------- properties of the App
\* the width and the height of the overlay in percent of main, as the style
\* of lines 623-624 gives them
OverlayPercentWidth(scale) == DMul(FromNat(30), scale)
OverlayPercentHeight(scale) == DMul(FromNat(25), scale)

\* a / b = c / d up to the rounding of the doubles, for a <= b and c <= d:
\* | a * d - c * b | <= b * d * 2^-50
SameFraction(a, b, c, d) == Within(XMul(a, d), XMul(c, b), XMul(b, d), 50)

\* C14: capturePhoto places the board in proportion to the preview:
\* boardLeftX / canvas.width = whiteboardPosition.x / width of the preview,
\* boardTopY / canvas.height = whiteboardPosition.y / height of the preview,
\* and the board is 0.3 * whiteboardScale of the width and 0.25 *
\* whiteboardScale of the height of the output, the fractions (30 * scale %
\* and 25 * scale %) the overlay takes of the preview; all up to the
\* rounding of the doubles.
C14_ProportionalPlacement ==
    capture.taken =>
        LET canvasWidth == FromNat(capture.canvasWidth)
            canvasHeight == FromNat(capture.canvasHeight)
        IN  /\ SameFraction(capture.boardLeftX, canvasWidth,
                            capture.position.x, FromNat(MainWidth))
            /\ SameFraction(capture.boardTopY, canvasHeight,
                            capture.position.y, FromNat(MainHeight))
            /\ SameFraction(capture.boardWidth, canvasWidth,
                            OverlayPercentWidth(capture.scale), Hundred)
            /\ SameFraction(capture.boardHeight, canvasHeight,
                            OverlayPercentHeight(capture.scale), Hundred)
            /\ SameFraction(capture.boardWidth, canvasWidth,
                            XMul(Three, capture.scale), FromNat(10))
            /\ SameFraction(capture.boardHeight, canvasHeight,
                            capture.scale, FromNat(4))

C14_Witness ==
    /\ capture.taken
    /\ capture.videoHeight = 800
    /\ capture.scale = Literal(7, 1)
    /\ capture.position = [x |-> FromNat(101), y |-> FromNat(101)]
    /\ capture.boardLeftX # Zero
    /\ capture.boardLeftX # capture.position.x
    /\ imageSrc = Photo

\* C18: the preview render and the capture render exclude each other with
\* respect to the photo: the preview drawWhiteboard runs only while imageSrc
\* is null, capturePhoto (directly or at the end of a countdown) is never
\* invoked while a photo is shown, and no countdown runs while one is shown.
C18_MutualExclusion ==
    invoked # <<>> =>
        /\ invoked.by \in {"preview", "capture"}
        /\ invoked.imageSrc = NoPhoto
        /\ countdown # NoCountdown => imageSrc = NoPhoto

\* a photo taken at the end of a countdown is shown
C18_Witness ==
    /\ invoked # <<>>
    /\ invoked.by = "capture"
    /\ isTimerEnabled
    /\ countdown = NoCountdown
    /\ imageSrc = Photo
    /\ capture.taken

\* C19 (as claimed): for every frame size the source rectangle of
\* capturePhoto has the aspect ratio 4:3 exactly, is centred in the frame,
\* lies inside the frame, takes the whole frame in one dimension, and the
\* output canvas has exactly the size of the rectangle.
C19_CropIsFourByThree ==
    capture.taken =>
        LET vw == FromNat(capture.videoWidth)
            vh == FromNat(capture.videoHeight)
        IN  /\ XMul(Three, capture.sWidth) = XMul(FromNat(4), capture.sHeight)
            /\ ~capture.sx.neg /\ ~capture.sy.neg
            /\ XLe(XAdd(capture.sx.abs, capture.sWidth), vw)
            /\ XLe(XAdd(capture.sy.abs, capture.sHeight), vh)
            /\ XAdd(XScale(capture.sx.abs, 1), capture.sWidth) = vw
            /\ XAdd(XScale(capture.sy.abs, 1), capture.sHeight) = vh
            /\ capture.sWidth = vw \/ capture.sHeight = vh
            /\ FromNat(capture.canvasWidth) = capture.sWidth
            /\ FromNat(capture.canvasHeight) = capture.sHeight

\* ----------------------------------------------- properties of the lists
\* the text of a file that is empty or has no line other than blank ones
NoValidLine(filetext) == \A k \in 1 .. Len(filetext) : filetext[k] \in WhiteSpace

\* C20 (as claimed): importing a file that is empty or has only blank lines
\* does not update the saved list: the list held before the import is the
\* list afterwards, in the component and in localStorage, as the alert says.
C20_EmptyImportKeepsList ==
    (imported # <<>> /\ imported.done /\ NoValidLine(imported.text)) =>
        /\ alerted = "not updated"
        /\ savedOptions = imported.before
        /\ stored = imported.before

\* ---------------------------------------- properties of the stored options
\* raw is the text of a JSON array of string literals: [ ], or [ s {, s} ]
IsStringArrayText(raw) ==
    /\ raw # Null
    /\ Len(raw) >= 2
    /\ raw[1] = "["
    /\ raw[Len(raw)] = "]"
    /\ Len(raw) = 2 \/ Len(raw) % 2 = 1
    /\ \A k \in 2 .. Len(raw) - 1 :
          IF k % 2 = 0 THEN raw[k] \in StringLiterals ELSE raw[k] = ","

\* the strings of such a text, in their order
StringsOfText(raw) == [k \in 1 .. (Len(raw) - 1) \div 2 |-> StringOf(raw[2 * k])]

\* what a call does for the key absent and for the key holding an array of
\* strings: the default, and the array, are returned; the key is not touched
ReturnsStoredOrDefault ==
    /\ returned.outcome.kind = "return"
    /\ returned.held = Null =>
          returned.outcome.value = returned.defaultOptions /\ item = Null
    /\ IsStringArrayText(returned.held) =>
          returned.outcome.value = StringsOfText(returned.held) /\ item = returned.held

\* the key was removed and the default returned
ResetToDefault ==
    /\ returned.outcome = Returns(returned.defaultOptions)
    /\ item = Null

NoDuplicates(list) == \A i, j \in 1 .. Len(list) : list[i] = list[j] => i = j

\* C22: from lists without duplicates, whatever the SETs, imports, deletes,
\* bulk deletes, online and offline events and syncs, neither the displayed
\* list nor the stored list of a field holds the same string twice.
C22_NoDuplicates ==
    \A f \in Fields : NoDuplicates(serverStorage[f]) /\ NoDuplicates(options[f])

\* C22: an import of the lines b, a into the list a has just completed: only
\* b was added.
C22_Witness ==
    /\ audit.note.kind = "import"
    /\ audit.note.before = << <<"a">> >>
    /\ options["field-1"] = << <<"b">>, <<"a">> >>

\* C23: when an import has completed, no item that was in the list at that
\* moment has been removed by it, the items saved while the file was read
\* included (the claim says more: the list is the new lines of the file
\* followed by the list as it was at that moment).
C23_ImportKeepsItems ==
    audit.note.kind = "import" =>
        \A k \in 1 .. Len(audit.note.before) : Includes(audit.note.after, audit.note.before[k])

\* the action of the index k of queue adds an item that no later action of
\* the queue deletes or replaces
AddedForGood(queue, k) ==
    /\ queue[k].type = "add"
    /\ \A m \in k + 1 .. Len(queue) :
          \/ queue[m].listId # queue[k].listId
          \/ queue[m].type = "add"
          \/ queue[m].type = "delete" /\ queue[m].item # queue[k].item

\* C25: when syncOfflineChanges reports its end, no write having failed and
\* no handler having called the api meanwhile, every item queued with 'add'
\* and not deleted or replaced later in the queue is in the stored list, also
\* when fetchInitialData runs at the same time (the claim says more: the
\* stored lists are those of the start with the queue applied in order).
C25_SyncKeepsAdded ==
    (audit.note.kind = "sync" /\ ~audit.note.threw /\ ~audit.note.touched) =>
        \A k \in 1 .. Len(audit.note.queue) :
            AddedForGood(audit.note.queue, k) =>
                Includes(audit.note.stored[audit.note.queue[k].listId], audit.note.queue[k].item)

\* C26: syncOfflineChanges clears the queue and shows the notification of
\* the completed sync only if no write of a replayed action failed.
C26_CompletedOnlyIfApplied ==
    (audit.note.kind = "sync" /\ notification = "sync completed" /\ offlineQueue = <<>>) =>
        ~audit.note.threw

\* C27: no action of the offline queue is removed from it before it has been
\* replayed.
C27_NothingDroppedUnreplayed == audit.lost = {}

\* ------------------------------------------ properties of the service worker
\* The listener was cache-first for the last fetch event: a request that is
\* not a GET is not intercepted; a GET whose response is in the cache gets
\* it and the network is not contacted; otherwise the response of the
\* network is returned and it is put in the cache exactly when its status is
\* 200 and its type basic or cors, so that the cache then answers the request.
CacheFirst ==
    /\ fetched.request.method # "GET" => ~fetched.result.intercepted
    /\ fetched.request.method = "GET" =>
        /\ fetched.result.intercepted
        /\ fetched.cached # NoResponse =>
              fetched.result.response = fetched.cached /\ ~fetched.result.contacted
        /\ (fetched.cached = NoResponse /\ fetched.networkResponse # Rejected) =>
              /\ fetched.result.contacted
              /\ fetched.result.response = fetched.networkResponse
              /\ fetched.result.put <=> (fetched.networkResponse.status = 200
                                         /\ fetched.networkResponse.type \in {"basic", "cors"})
              /\ fetched.result.put =>
                    \/ <<fetched.request.url, fetched.networkResponse>> \in pending
                    \/ CacheMatch(cache, fetched.request.url) # NoResponse

\* C24: as claimed, the listener is cache-first for every request.
C24_CacheFirstForEveryGet == fetched # NoFetch => CacheFirst

\* C24: the listener is cache-first for every request of the legacy worker
\* and for every request of the current worker that is not a navigation; a
\* GET navigation of the current worker is answered with the cached
\* ./index.html without the network if the cache has it, else with the
\* response of the network, which is not put in the cache.
C24_CacheFirst ==
    fetched # NoFetch =>
        IF worker = "current" /\ fetched.request.method = "GET" /\ fetched.request.mode = "navigate"
        THEN /\ fetched.result.intercepted
             /\ ~fetched.result.put
             /\ IF fetched.index # NoResponse
                THEN fetched.result.response = fetched.index /\ ~fetched.result.contacted
                ELSE /\ fetched.result.contacted
                     /\ fetched.networkResponse # Rejected =>
                            fetched.result.response = fetched.networkResponse
        ELSE CacheFirst

\* C24: the current worker has answered a GET that is not a navigation, whose
\* response was not in the cache, with the response of the network, status
\* 200 and type cors, and the copy put in the cache is there.
C24_Witness ==
    /\ worker = "current"
    /\ fetched.request = [method |-> "GET", mode |-> "cors", url |-> "./other"]
    /\ fetched.cached = NoResponse
    /\ fetched.result.put
    /\ fetched.networkResponse = [status |-> 200, type |-> "cors", body |-> "v2"]
    /\ CacheMatch(cache, "./other") = fetched.networkResponse

\* --------------------------------------------- properties of the self-timer
\* the values 10, 9, ..., 0
RECURSIVE CountingDown(_)
CountingDown(from) == IF from < 0 THEN <<>> ELSE <<from>> \o CountingDown(from - 1)

\* the first n elements of a sequence
FirstOf(sequence, n) == SubSeq(sequence, 1, n)

\* Since the press of the capture button with the timer enabled: the values
\* taken by the countdown are the first values of 10, 9, ..., 0, each once;
\* the capture routine has been invoked at most once, and only after the
\* countdown took the value 0; and when the countdown is null again without
\* having been cancelled, the routine has been invoked exactly once.  A
\* cancelled countdown leaves the routine not invoked.
CountdownInOrder ==
    taken # <<>> =>
        /\ Len(taken) <= TimerSeconds + 1
        /\ taken = FirstOf(CountingDown(TimerSeconds), Len(taken))
        /\ countdown # NoCountdown => countdown = taken[Len(taken)] /\ captures = 0
        /\ captures <= 1
        /\ captures = 1 => taken = CountingDown(TimerSeconds) /\ countdown = NoCountdown
        /\ (countdown = NoCountdown /\ ~cancelled) => captures = 1
        /\ cancelled => captures = 0 /\ timeouts = {} /\ app = "legacy"

\* C28: with the timer enabled, one press of the capture button makes the
\* countdown take the values 10, 9, ..., 1, 0 in that order, each once, also
\* when the texts, the scale or the position change meanwhile; the capture
\* routine is invoked exactly once, at the value 0 and not before, and the
\* countdown is then null; a countdown cancelled in the legacy App leads to
\* no capture; and a countdown that is started ends with the capture unless
\* it is cancelled.
C28_Countdown ==
    /\ []CountdownInOrder
    /\ (countdown = TimerSeconds) ~> (countdown = NoCountdown /\ (captures = 1 \/ cancelled))

\* C28: the countdown of the current App has ended with the capture although
\* the capture routine changed twice while it ran.
C28_Witness ==
    /\ app = "current"
    /\ taken = CountingDown(TimerSeconds)
    /\ restarts = MaxRestarts
    /\ captures = 1
    /\ countdown = NoCountdown
====
